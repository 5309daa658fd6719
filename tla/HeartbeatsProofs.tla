-------------------------- MODULE HeartbeatsProofs ---------------------------
(***************************************************************************)
(* A heartbeat adds nothing to what can happen to a dictionary: what holds *)
(* of Durability holds with heartbeats and with refused locks.             *)
(***************************************************************************)
EXTENDS Heartbeats, DurabilityProofs

\* A heartbeat changes neither the words nor the locks, flags and counters of the
\* server; it only delays the others (dict.c:691-713).
THEOREM AddsNothing == HbSpec => Spec
<1>1. HbInit => Init
  BY DEF HbInit
<1>2. [HbNext]_hbvars => [Next]_vars
  <2>1. Next /\ Along => [Next]_vars
    OBVIOUS
  <2>2. StartHeartbeat \/ EnterHeartbeat \/ TestDisk \/ StrayHeartbeat \/ LockRefused
            => UNCHANGED vars
    BY DEF StartHeartbeat, EnterHeartbeat, TestDisk, StrayHeartbeat, LockRefused
  <2>3. UNCHANGED hbvars => UNCHANGED vars
    BY DEF hbvars
  <2> QED BY <2>1, <2>2, <2>3 DEF HbNext
<1> QED BY <1>1, <1>2, PTL DEF HbSpec, Spec

\* Updates, rounds, deletions and crashes are as safe as they are without it, and
\* the files still do what Storage promises.
THEOREM SafeWithTests ==
    HbSpec => /\ []TypeOK
              /\ []OneWordPerMishap
              /\ []JournalCoversUnlessCleaned
              /\ []PausedIsQuiet
              /\ []SkipsRight
              /\ []CreatedEmpty
              /\ ImplementsStorage
BY AddsNothing, Refinement, TypeCorrect, LossBounded, JournalsCover, PauseQuiet,
   SkipsJustified, CreatesEmpty, PTL
==============================================================================
