-------------------------------- MODULE Storage --------------------------------
(***************************************************************************)
(* The files under data/: the problem store and the model configuration,   *)
(* each with a lock of its own, one reset that goes through both of them   *)
(* without taking either, and one process that crashes as a whole.         *)
(***************************************************************************)
EXTENDS ProblemStore

VARIABLES config, key, call, step, owner, inHand, clear, raced

A == INSTANCE AiConfig WITH Callers <- Handlers

configVars == <<config, key, call, step, owner, inHand, clear, raced>>

allVars == <<vars, configVars>>

StorageInit == Init /\ A!Init

\* a handler makes one call, to one of the two
CallProblems(h) == call[h] = A!Idle /\ Call(h) /\ UNCHANGED configVars
CallConfig(h) == req[h] = C!Idle /\ A!Begin(h) /\ UNCHANGED vars

Problems == (Operation \/ DiskFull \/ \E h \in Handlers : Enter(h)) /\ UNCHANGED configVars
Config == (A!Serve \/ A!DiskError \/ \E h \in Handlers : A!Lock(h)) /\ UNCHANGED vars

ResetProblems == (WipeScan \/ WipeUnlink \/ WipeRmdir \/ WipeMkdir) /\ UNCHANGED configVars
ResetConfig == wipe = "done" /\ (A!ClearConfig \/ A!ClearKey) /\ UNCHANGED vars

CrashAll == Crash /\ A!Die /\ clear' = IF wipe = "off" THEN "off" ELSE "done"

StorageNext ==
  \/ \E h \in Handlers : CallProblems(h) \/ CallConfig(h)
  \/ Problems \/ Config \/ ResetProblems \/ ResetConfig \/ CrashAll

StorageSpec == StorageInit /\ [][StorageNext]_allVars

-----------------------------------------------------------------------------

\* Every answer of the store is the answer of the catalogue at one moment of
\* the call, and no crash, disk error or reset does more to the files than the
\* catalogue allows: an edit never changes the visibility it does not mention,
\* a crash never loses an acknowledged problem.
ImplementsCatalogue == C!Spec

\* A stored configuration can be decrypted with the stored key, unless a save
\* overlapped a reset, whatever disk error met the calls.  The key is half written
\* only in the hands of the call that makes it, or since a disk error or a crash.
\* Without a reset and a crash, a call that met no disk error itself fails only on
\* such a torn key, which stays until the next reset.
ConfigUsable ==
  /\ config = A!None \/ key = config.key \/ raced
  /\ key = A!TornKey => step = "write" \/ crashes > 0 \/ \E h \in Handlers : call[h].at = "failed"
  /\ \A h \in Handlers :
       call[h].at = "done" /\ call[h].code = 500 =>
         clear # "off" \/ crashes > 0 \/ (key = A!TornKey /\ step # "write")
=============================================================================
