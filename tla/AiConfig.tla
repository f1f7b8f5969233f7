------------------------------- MODULE AiConfig -------------------------------
(***************************************************************************)
(* The model configuration of the AI service and the key that encrypts it: *)
(* ModelConfigStore (app/services/ai_service.py), its two handlers in      *)
(* app/routers/ai.py, and the end of POST /api/reset/, which removes both  *)
(* files without the store's lock.  A key is named by the call that made   *)
(* it; a configuration records who saved it and under which key.           *)
(***************************************************************************)
EXTENDS Naturals

CONSTANT Callers

VARIABLES
  config,  \* the configuration file
  key,     \* the key file: absent, torn (created, not written) or whole
  call,    \* [Callers -> idle, pending or answered; failed: 500, by an I/O error]
  step,    \* where the call that holds the lock is
  owner,   \* that call, or "nobody"
  inHand,  \* the configuration or the key it has read
  clear,   \* the reset's step
  raced    \* a save overlapped the reset

inCall == <<step, owner, inHand>>
vars == <<config, key, call, inCall, clear, raced>>

None == [by |-> "nobody", key |-> "none"]
NoKey == "none"
TornKey == "torn"
Idle == [at |-> "idle"]

Waits(c) == call[c].at = "pending"
Saving(c) == Waits(c) /\ call[c].op = "save"
Resetting == clear = "config"

Begin(c) ==
  /\ call[c] = Idle
  /\ \E op \in {"save", "load"} :
       /\ call' = [call EXCEPT ![c] = [at |-> "pending", op |-> op]]
       /\ raced' = (raced \/ (Resetting /\ op = "save"))
  /\ UNCHANGED <<config, key, inCall, clear>>

Lock(c) ==
  /\ owner = "nobody" /\ Waits(c)
  /\ owner' = c /\ step' = IF call[c].op = "save" THEN "key" ELSE "config"
  /\ UNCHANGED <<config, key, call, inHand, clear, raced>>

Leave(r) ==
  /\ call' = [call EXCEPT ![owner] = r]
  /\ owner' = "nobody" /\ step' = "out" /\ inHand' = [config |-> None, key |-> NoKey]
Answer(code, value) == Leave([at |-> "done", code |-> code, value |-> value])
Go(s) == step' = s /\ UNCHANGED <<call, owner>>
Op == call[owner].op

\* load: is_file(), then read_text()
FindConfig ==
  /\ step = "config"
  /\ IF config = None THEN Answer(200, None) ELSE Go("read") /\ UNCHANGED inHand
  /\ UNCHANGED <<config, key, clear, raced>>

ReadConfig ==
  /\ step = "read"
  /\ IF config = None THEN Answer(500, None)
     ELSE Go("key") /\ inHand' = [inHand EXCEPT !.config = config]
  /\ UNCHANGED <<config, key, clear, raced>>

\* mutant: every save makes a key of its own
FindKey_New ==
  /\ step = "key" /\ key' = TornKey /\ Go("write")
  /\ UNCHANGED <<config, inHand, clear, raced>>

\* _load_key: an existing file is read in a step of its own; otherwise a file
\* is created exclusively and written afterwards
FindKey ==
  /\ step = "key"
  /\ IF key = NoKey THEN key' = TornKey /\ Go("write") ELSE Go("readkey") /\ UNCHANGED key
  /\ UNCHANGED <<config, inHand, clear, raced>>

ReadKey ==
  /\ step = "readkey"
  /\ IF key = NoKey THEN Answer(500, None)
     ELSE Go("crypt") /\ inHand' = [inHand EXCEPT !.key = key]
  /\ UNCHANGED <<config, key, clear, raced>>

\* mutant: the new key is used, but never reaches its file
WriteKey_Lost ==
  /\ step = "write" /\ Go("crypt") /\ inHand' = [inHand EXCEPT !.key = owner]
  /\ UNCHANGED <<config, key, clear, raced>>

WriteKey ==
  /\ step = "write"
  /\ key' = IF key = TornKey THEN owner ELSE key
  /\ Go("crypt") /\ inHand' = [inHand EXCEPT !.key = owner]
  /\ UNCHANGED <<config, clear, raced>>

\* Any of these steps may meet a disk error, which ends the call.  The files stay
\* as the steps before left them: the key created and not written, as f.write
\* fails; the old configuration, as _replace fails; the new one, as chmod does.
DiskError ==
  /\ owner # "nobody"
  /\ Leave([at |-> "failed"])
  /\ UNCHANGED <<config, key, clear, raced>>

\* an empty key file is no key: neither call gets past it
Decrypt ==
  /\ step = "crypt" /\ Op = "load"
  /\ IF inHand.key = inHand.config.key THEN Answer(200, inHand.config) ELSE Answer(500, None)
  /\ UNCHANGED <<config, key, clear, raced>>

Save ==
  /\ step = "crypt" /\ Op = "save"
  /\ IF inHand.key = TornKey THEN Answer(500, None) /\ UNCHANGED config
     ELSE config' = [by |-> owner, key |-> inHand.key] /\ Go("chmod") /\ UNCHANGED inHand
  /\ UNCHANGED <<key, clear, raced>>

Chmod ==
  /\ step = "chmod"
  /\ IF config = None THEN Answer(500, None) ELSE Answer(200, config)
  /\ UNCHANGED <<config, key, clear, raced>>

\* reset: the configuration first, then the key
ClearConfig ==
  /\ clear = "off" /\ clear' = "config" /\ config' = None
  /\ raced' = (raced \/ \E c \in Callers : Saving(c))
  /\ UNCHANGED <<key, call, inCall>>

ClearKey ==
  /\ clear = "config" /\ clear' = "done" /\ key' = NoKey
  /\ UNCHANGED <<config, call, inCall, raced>>

Die ==
  /\ call' = [c \in Callers |-> IF Waits(c) THEN [at |-> "lost"] ELSE call[c]]
  /\ owner' = "nobody" /\ step' = "out" /\ inHand' = [config |-> None, key |-> NoKey]
  /\ UNCHANGED <<config, key, raced>>

Init ==
  /\ config = None /\ key = NoKey
  /\ call = [c \in Callers |-> Idle]
  /\ step = "out" /\ owner = "nobody" /\ inHand = [config |-> None, key |-> NoKey]
  /\ clear = "off" /\ raced = FALSE

Serve == FindConfig \/ ReadConfig \/ FindKey \/ ReadKey \/ WriteKey \/ Decrypt \/ Save \/ Chmod
=============================================================================
