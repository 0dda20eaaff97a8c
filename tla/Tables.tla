-------------------------------- MODULE Tables --------------------------------
(***************************************************************************)
(* What the functions of ProcessTable preserve: every entry is filed under *)
(* its own identity, and no PID is held twice.  The proofs about the       *)
(* watchers that apply notices to a table rest on these lemmas.            *)
(***************************************************************************)
EXTENDS ProcessTable, TLAPS

\* A record that has an identity.
HasId(proc) == "id" \in DOMAIN proc

Filed(table) == \A id \in DOMAIN table : HasId(table[id]) /\ table[id].id = id

FiledOnce(table) == Filed(table) /\ OnePerPid(table)

LEMMA FiledOnceIsSound ==
    ASSUME NEW table, FiledOnce(table)
    PROVE  Sound(table)
  BY DEF FiledOnce, Filed, Sound, KeyedById

LEMMA EmptyIsFiled == FiledOnce(EmptyTable)
  BY DEF FiledOnce, Filed, OnePerPid, EmptyTable

LEMMA CapturedHasId ==
    ASSUME NEW id, NEW image, NEW started, NEW captured
    PROVE  /\ HasId(Captured(id, image, started, captured))
           /\ Captured(id, image, started, captured).id = id
  BY DEF HasId, Captured

\* preserveProcessObservation changes times only.
LEMMA PreserveHasId ==
    ASSUME NEW old, NEW new, HasId(new)
    PROVE  HasId(Preserve(old, new)) /\ Preserve(old, new).id = new.id
  BY DEF HasId, Preserve

LEMMA PreserveAllIsFiled ==
    ASSUME NEW previous, NEW next, FiledOnce(next)
    PROVE  FiledOnce(PreserveAll(previous, next))
<1>1. DOMAIN PreserveAll(previous, next) = DOMAIN next
  BY DEF PreserveAll
<1>2. ASSUME NEW id \in DOMAIN next
      PROVE  /\ HasId(PreserveAll(previous, next)[id])
             /\ PreserveAll(previous, next)[id].id = id
  <2>1. HasId(next[id]) /\ next[id].id = id
    BY DEF FiledOnce, Filed
  <2>2. PreserveAll(previous, next)[id] \in {next[id], Preserve(previous[id], next[id])}
    BY DEF PreserveAll
  <2> QED BY <2>1, <2>2, PreserveHasId
<1> QED BY <1>1, <1>2 DEF FiledOnce, Filed, OnePerPid

LEMMA RemoveIsFiled ==
    ASSUME NEW table, FiledOnce(table), NEW pid
    PROVE  /\ FiledOnce(RemoveByPid(table, pid))
           /\ DOMAIN RemoveByPid(table, pid) = {id \in DOMAIN table : id.pid # pid}
<1>1. /\ DOMAIN RemoveByPid(table, pid) = {id \in DOMAIN table : id.pid # pid}
      /\ \A id \in DOMAIN RemoveByPid(table, pid) : RemoveByPid(table, pid)[id] = table[id]
  BY DEF RemoveByPid, Without, AtPid
<1> QED BY <1>1 DEF FiledOnce, Filed, OnePerPid

\* A process whose PID the table does not hold yet.
LEMMA PutIsFiled ==
    ASSUME NEW table, FiledOnce(table), NEW proc, HasId(proc),
           \A id \in DOMAIN table : id.pid # proc.id.pid
    PROVE  /\ FiledOnce(Put(table, proc.id, proc))
           /\ DOMAIN Put(table, proc.id, proc) = DOMAIN table \cup {proc.id}
<1>1. /\ DOMAIN Put(table, proc.id, proc) = DOMAIN table \cup {proc.id}
      /\ Put(table, proc.id, proc)[proc.id] = proc
      /\ \A id \in DOMAIN table : Put(table, proc.id, proc)[id] = table[id]
  BY DEF Put
<1> QED BY <1>1 DEF FiledOnce, Filed, OnePerPid

\* What the watchers do with a notice of a start: the PID's former entries go,
\* whatever their identities.
LEMMA ReplaceIsFiled ==
    ASSUME NEW table, FiledOnce(table), NEW proc, HasId(proc)
    PROVE  FiledOnce(Put(RemoveByPid(table, proc.id.pid), proc.id, proc))
<1> DEFINE rest == RemoveByPid(table, proc.id.pid)
<1>1. FiledOnce(rest) /\ DOMAIN rest = {id \in DOMAIN table : id.pid # proc.id.pid}
  BY RemoveIsFiled
<1> HIDE DEF rest
<1>2. FiledOnce(Put(rest, proc.id, proc))
  BY <1>1, PutIsFiled
<1> QED BY <1>2 DEF rest

-----------------------------------------------------------------------------
(***************************************************************************)
(* What the functions leave under a PID.                                   *)
(***************************************************************************)

\* Nothing of a PID that is removed, of others what there was.
LEMMA RemoveAtPid ==
    ASSUME NEW table, NEW pid, NEW after, after = RemoveByPid(table, pid)
    PROVE  /\ AtPid(after, pid) = {}
           /\ \A q : q # pid =>
                 /\ AtPid(after, q) = AtPid(table, q)
                 /\ \A id \in AtPid(table, q) : after[id] = table[id]
  BY DEF RemoveByPid, Without, AtPid

\* A new entry of a PID that has none is its only one.
LEMMA PutAtPid ==
    ASSUME NEW table, NEW id, NEW proc, \A k \in DOMAIN table : k.pid # id.pid,
           NEW after, after = Put(table, id, proc)
    PROVE  /\ AtPid(after, id.pid) = {id}
           /\ after[id] = proc
           /\ \A q : q # id.pid =>
                 /\ AtPid(after, q) = AtPid(table, q)
                 /\ \A k \in AtPid(table, q) : after[k] = table[k]
  BY DEF Put, AtPid

\* preserveProcessObservation keeps what was read of the image.
HasImage(proc) == "image" \in DOMAIN proc

LEMMA PreserveImage ==
    ASSUME NEW old, NEW new, HasImage(new)
    PROVE  HasImage(Preserve(old, new)) /\ Preserve(old, new).image = new.image
  BY DEF Preserve, HasImage

LEMMA CapturedHasImage ==
    ASSUME NEW id, NEW image, NEW started, NEW captured
    PROVE  /\ HasImage(Captured(id, image, started, captured))
           /\ Captured(id, image, started, captured).image = image
  BY DEF HasImage, Captured
=============================================================================
