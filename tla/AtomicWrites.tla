---------------------------- MODULE AtomicWrites ----------------------------
(***************************************************************************)
(* What Manager.Transaction (db/internal/dbsp/sharding_factory.go) and     *)
(* dbhelper.Transaction promise their callers: the rows a transaction      *)
(* writes, all of one database, appear together when it commits or never,  *)
(* a COMMIT that fails leaves open which, and a write without transaction  *)
(* takes effect on its own.                                                *)
(***************************************************************************)
CONSTANTS
  Client, \* goroutines
  Row     \* rows where the stores of the manager look for them

VARIABLES
  rows,   \* what the databases hold
  open,   \* clients with an open transaction
  wrote,  \* the rows it wrote so far
  ended   \* what each transaction wrote and how it ended

vars == <<rows, open, wrote, ended>>

Init == /\ rows = {} /\ open = {} /\ ended = {}
        /\ wrote = [c \in Client |-> {}]

OneDatabase(W) == \A r, s \in W : r.group = s.group /\ r.target = s.target

(* The row belongs to no transaction that ended and to none of D.          *)
Unclaimed(r, D) == /\ \A d \in D : r \notin wrote[d]
                   /\ \A d \in ended : r \notin d.wrote

Open(c) ==
  /\ c \notin open /\ open' = open \cup {c}
  /\ UNCHANGED <<rows, wrote, ended>>

(* The row is among what its client wrote, so it need not range over Row.  *)
Write(c) ==
  /\ c \in open
  /\ \E r \in wrote'[c] \cap Row :
       /\ wrote' = [wrote EXCEPT ![c] = @ \cup {r}]
       /\ r \notin rows /\ Unclaimed(r, open \ {c}) /\ OneDatabase(wrote'[c])
  /\ UNCHANGED <<rows, open, ended>>

Close(c, outcome) ==
  /\ c \in open /\ open' = open \ {c}
  /\ ended' = ended \cup {[outcome |-> outcome, wrote |-> wrote[c]]}
  /\ wrote' = [wrote EXCEPT ![c] = {}]

Apply(c) == rows' = rows \cup wrote[c] /\ Close(c, "committed")
Lose(c)  == rows' \in {rows, rows \cup wrote[c]} /\ Close(c, "unknown")
Undo(c)  == UNCHANGED rows /\ Close(c, "rolled back")

WriteAlone ==
  /\ \E r \in rows' \cap Row :
       /\ rows' = rows \cup {r}
       /\ Unclaimed(r, open)
  /\ UNCHANGED <<open, wrote, ended>>

Next ==
  \/ \E c \in Client : Open(c) \/ Write(c) \/ Apply(c) \/ Lose(c) \/ Undo(c)
  \/ WriteAlone

Spec == Init /\ [][Next]_vars
=============================================================================
