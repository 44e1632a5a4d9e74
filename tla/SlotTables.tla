----------------------------- MODULE SlotTables ----------------------------
(***************************************************************************)
(* The shared state of the two servers of a shard (db/table.go and the     *)
(* Prepare, Commit and DumpTable handlers of db/server.go).                *)
(*                                                                         *)
(* Each server XORs its share of a write into its table; the XOR of both   *)
(* tables is the plaintext.  A write is abstracted to its uuid, a table to *)
(* how often each write was XORed in: a write shows in the table when that *)
(* number is odd, and the plaintext is readable when both tables show the  *)
(* same writes (an unmatched share is random in every row).                *)
(***************************************************************************)
EXTENDS UploadQueue

Servers == {0, 1}   \* NUM_SERVERS = 2; server 0 is the leader

VARIABLES
  pending,    \* server -> uuids prepared and not committed
  writes      \* server -> uuid -> number of times XORed into localTables

tableVars == <<pending, writes>>

TablesTypeOK ==
  /\ pending \in [Servers -> SUBSET Uploads]
  /\ writes \in [Servers -> [Uploads -> Nat]]

TablesInit ==
  /\ pending = [s \in Servers |-> {}]
  /\ writes = [s \in Servers |-> [u \in Uploads |-> 0]]

\* Prepare registers the query and XORs it into the table at once, whatever
\* the table already holds: the handler does not look for an earlier Prepare.
\* It works row by row.  The publication barrier keeps dumps away while a
\* worker waits for it; only a call left behind by a failed fan-out can be
\* torn by a dump, and the contents of results are checked without those.
Prepare(s, u) ==
  /\ pending' = [pending EXCEPT ![s] = @ \cup {u}]
  /\ writes' = [writes EXCEPT ![s][u] = @ + 1]

\* Commit only forgets the pending query; it fails for an unknown uuid.
Commit(s, u) ==
  /\ u \in pending[s]
  /\ pending' = [pending EXCEPT ![s] = @ \ {u}]
  /\ UNCHANGED writes

\* The writes that show in the table of server s.
Table(s) == {u \in Uploads : writes[s][u] % 2 = 1}

\* DumpTable answers with CopyToAndClear: it XORs every localTables[i] into
\* table, copies table out and clears table.  The localTables keep their
\* contents, so the next dump contains these writes again.
DumpTable(s, reply) ==
  /\ reply = Table(s)
  /\ UNCHANGED tableVars
=============================================================================
