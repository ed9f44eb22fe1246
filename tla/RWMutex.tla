------------------------------ MODULE RWMutex ------------------------------
(***************************************************************************)
(* Go's sync.RWMutex, as the code uses it: any number of readers or one    *)
(* writer.  A writer first announces itself and then waits for the readers *)
(* that are in; from the announcement on every new RLock waits, and Unlock *)
(* lets all the readers in that arrived meanwhile before the next writer.  *)
(* The type is the standard library's, so this module is external.         *)
(***************************************************************************)

CONSTANT NoOne          \* the value of writer when nobody announced itself

VARIABLES readers,      \* the read locks held
          blocked,      \* the calls of RLock that wait for the writer
          writer        \* the writer that waits for the readers or holds the lock

lockVars == <<readers, blocked, writer>>

LockInit == readers = {} /\ blocked = {} /\ writer = NoOne

RLock(p) ==
  /\ \/ writer = NoOne /\ readers' = readers \union {p} /\ UNCHANGED blocked
     \/ writer # NoOne /\ blocked' = blocked \union {p} /\ UNCHANGED readers
  /\ UNCHANGED writer

RUnlock(p) == readers' = readers \ {p} /\ UNCHANGED <<blocked, writer>>

Announce(w) ==
  writer = NoOne /\ writer' = w /\ UNCHANGED <<readers, blocked>>

Holds(w) == writer = w /\ readers = {}

Unlock ==
  /\ readers' = readers \union blocked
  /\ blocked' = {}
  /\ writer' = NoOne
============================================================================
