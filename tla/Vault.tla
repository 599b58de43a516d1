------------------------------- MODULE Vault --------------------------------
(***************************************************************************)
(* What a user may rely on, whatever the devices and the server do to keep *)
(* their copies up to date: an entry comes into being on one device, other *)
(* copies are made of an entry that was saved, and a copy goes away only   *)
(* after the user asked for it.                                            *)
(***************************************************************************)
CONSTANTS Device, Entry

VARIABLES copies,       \* the entries each device holds
          stored,       \* the entries the server holds
          saved,        \* the entries whose saving is complete
          requested     \* the entries a user asked to delete, per device

vars == <<copies, stored, saved, requested>>

Init ==
  /\ copies = [d \in Device |-> {}]
  /\ stored = {}
  /\ saved = {}
  /\ requested = [d \in Device |-> {}]

\* A new entry: nobody holds it.
Create(d, e) ==
  /\ e \notin saved \union stored
  /\ \A c \in Device : e \notin copies[c]
  /\ copies' = [copies EXCEPT ![d] = @ \union {e}]
  /\ UNCHANGED <<stored, saved, requested>>

Save(e) ==
  /\ e \notin saved
  /\ \E d \in Device : e \in copies[d]
  /\ saved' = saved \union {e}
  /\ UNCHANGED <<copies, stored, requested>>

\* A device brings a saved entry to the server.
Publish(e) ==
  /\ e \in saved
  /\ stored' = stored \union {e}
  /\ UNCHANGED <<copies, saved, requested>>

\* A device gets a saved entry from the server.
Copy(d, e) ==
  /\ e \in saved
  /\ copies' = [copies EXCEPT ![d] = @ \union {e}]
  /\ UNCHANGED <<stored, saved, requested>>

Request(d, e) ==
  /\ e \in saved \union UNION {copies[c] : c \in Device}
  /\ requested' = [requested EXCEPT ![d] = @ \union {e}]
  /\ UNCHANGED <<copies, stored, saved>>

Drop(d, e) ==
  /\ e \in requested[d]
  /\ copies' = [copies EXCEPT ![d] = @ \ {e}]
  /\ UNCHANGED <<stored, saved, requested>>

Retire(d, e) ==
  /\ e \in requested[d]
  /\ stored' = stored \ {e}
  /\ UNCHANGED <<copies, saved, requested>>

Next ==
  \/ \E d \in Device, e \in Entry :
       Create(d, e) \/ Copy(d, e) \/ Request(d, e) \/ Drop(d, e) \/ Retire(d, e)
  \/ \E e \in Entry : Save(e) \/ Publish(e)

Spec == Init /\ [][Next]_vars

=============================================================================
