------------------------------ MODULE TraceStore ------------------------------
(***************************************************************************)
(* proxy/trace_store.py.  A record is written in steps: the parquet file   *)
(* of its tokens, the parquet file of its lookups if there are any, then   *)
(* its row in sqlite.  The process may be killed, or a step may raise,     *)
(* between any two of them and in the middle of a file.  Several proxies   *)
(* may write to one trace directory; readers come at any time.             *)
(***************************************************************************)
EXTENDS Integers, Sequences

CONSTANTS
  Writer,     \* the proxies that write to the directory
  Id,         \* request ids: fresh uuids, never used twice
  Record      \* the records the proxies may produce

VARIABLES
  tokens,     \* request id -> its token file
  lookups,    \* request id -> its lookups file
  rows,       \* request id -> its row
  pc,         \* writer -> the step of write() it is in
  cur,        \* writer -> [id, rec] being written
  used        \* ids handed out so far

vars == <<tokens, lookups, rows, pc, cur, used>>

NoTotal == -1
Absent  == [state |-> "absent"]
Partial == [state |-> "partial"]
File(x) == [state |-> "complete", data |-> x]

NoRecord == [n |-> 0, negative |-> FALSE, tags |-> <<>>, lookups |-> NoTotal,
             total |-> NoTotal, flags |-> 0]

ASSUME StoreAssumption ==
  /\ Id # {}
  /\ \A r \in Record :
    /\ r = [n |-> r.n, negative |-> r.negative, tags |-> r.tags, lookups |-> r.lookups,
            total |-> r.total, flags |-> r.flags]
    /\ r.n \in Nat /\ r.negative \in BOOLEAN
    /\ r.tags \in Seq({"skill_body", "other"})
    /\ r.lookups \in Nat \cup {NoTotal} /\ r.total \in Nat \cup {NoTotal}
    /\ r.flags = 0

(***************************************************************************)
(* The checks at the head of write().  The first two raise; the third adds *)
(* a violation to the record, once.                                        *)
(***************************************************************************)
Accepted(r) == (r.tags # <<>> => Len(r.tags) = r.n) /\ ~ r.negative

Exceeds(r) == r.total # NoTotal /\ r.lookups > r.total

Checked_Appended(r) == [r EXCEPT !.flags = IF Exceeds(r) THEN @ + 1 ELSE @]
Checked(r) == [r EXCEPT !.flags = IF Exceeds(r) /\ @ = 0 THEN 1 ELSE @]

(***************************************************************************)
(* The table of the token file: the placeholder "" stands in for the tags  *)
(* of an untagged prompt.                                                  *)
(***************************************************************************)
TokenTable(r) ==
  [n |-> r.n, tags |-> IF r.tags # <<>> THEN r.tags ELSE [k \in 1..r.n |-> ""]]

Row(r) == [total |-> r.total, flags |-> r.flags, path |-> r.lookups # NoTotal]

HasRow(i) == rows[i].state = "complete"

(***************************************************************************)
(* read_all for one row: the files are found under the root by the id; a   *)
(* prompt without a real tag reads back as untagged.                       *)
(***************************************************************************)
TagsRead_AsWritten(t) == t.tags
TagsRead(t) == IF \E k \in DOMAIN t.tags : t.tags[k] # "" THEN t.tags ELSE <<>>

Readable(i) ==
  /\ tokens[i].state = "complete"
  /\ rows[i].data.path => lookups[i].state = "complete"

ReadBack(i) ==
  [n        |-> tokens[i].data.n,
   negative |-> FALSE,
   tags     |-> TagsRead(tokens[i].data),
   lookups  |-> IF rows[i].data.path THEN lookups[i].data ELSE NoTotal,
   total    |-> rows[i].data.total,
   flags    |-> rows[i].data.flags]

Init ==
  /\ tokens = [i \in Id |-> Absent]
  /\ lookups = [i \in Id |-> Absent]
  /\ rows = [i \in Id |-> Absent]
  /\ pc = [w \in Writer |-> "idle"]
  /\ cur = [w \in Writer |-> [id |-> CHOOSE i \in Id : TRUE, rec |-> NoRecord]]
  /\ used = {}

(***************************************************************************)
(* write() is called with a new record, or with one that was read back and *)
(* given a fresh id.  A record that is not accepted raises before anything *)
(* is written.                                                             *)
(***************************************************************************)
Taken_Reused(i) == used
Taken(i) == used \cup {i}

Given == Record \cup {ReadBack(i) : i \in {j \in Id : HasRow(j)}}

Begin(w, i, r) ==
  /\ pc[w] = "idle" /\ i \notin used
  /\ used' = Taken(i)
  /\ IF Accepted(r)
       THEN /\ cur' = [cur EXCEPT ![w] = [id |-> i, rec |-> Checked(r)]]
            /\ pc' = [pc EXCEPT ![w] = "tokens"]
       ELSE UNCHANGED <<cur, pc>>
  /\ UNCHANGED <<tokens, lookups, rows>>

(***************************************************************************)
(* A file is first created, then filled.                                   *)
(***************************************************************************)
Filled(f, x) == IF f = Absent THEN Partial ELSE File(x)

WriteTokens(w) ==
  LET i == cur[w].id  r == cur[w].rec IN
  /\ pc[w] = "tokens"
  /\ tokens' = [tokens EXCEPT ![i] = Filled(@, TokenTable(r))]
  /\ pc' = [pc EXCEPT ![w] =
              IF tokens[i] = Absent THEN "tokens"
              ELSE IF r.lookups # NoTotal THEN "lookups" ELSE "insert"]
  /\ UNCHANGED <<lookups, rows, cur, used>>

AfterLookups_AtOnce(w) == "insert"
AfterLookups(w) == IF lookups[cur[w].id] = Absent THEN "lookups" ELSE "insert"

WriteLookups(w) ==
  LET i == cur[w].id IN
  /\ pc[w] = "lookups"
  /\ lookups' = [lookups EXCEPT ![i] = Filled(@, cur[w].rec.lookups)]
  /\ pc' = [pc EXCEPT ![w] = AfterLookups(w)]
  /\ UNCHANGED <<tokens, rows, cur, used>>

Insert(w) ==
  /\ pc[w] = "insert"
  /\ rows' = [rows EXCEPT ![cur[w].id] = File(Row(cur[w].rec))]
  /\ pc' = [pc EXCEPT ![w] = "idle"]
  /\ UNCHANGED <<tokens, lookups, cur, used>>

(***************************************************************************)
(* The process is killed, or a step raises (disk full, database locked by  *)
(* another writer): what is on disk stays as it is.                        *)
(***************************************************************************)
Abandon(w) ==
  /\ pc[w] # "idle"
  /\ pc' = [pc EXCEPT ![w] = "idle"]
  /\ UNCHANGED <<tokens, lookups, rows, cur, used>>

Next ==
  \E w \in Writer :
    \/ \E i \in Id : \E r \in Given : Begin(w, i, r)
    \/ WriteTokens(w) \/ WriteLookups(w) \/ Insert(w) \/ Abandon(w)

Spec == Init /\ [][Next]_vars

-----------------------------------------------------------------------------
States == {"absent", "partial", "complete"}

TypeOK ==
  /\ \A i \in Id : /\ tokens[i].state \in States /\ lookups[i].state \in States
                   /\ rows[i].state \in {"absent", "complete"}
  /\ pc \in [Writer -> {"idle", "tokens", "lookups", "insert"}]
  /\ \A w \in Writer : cur[w].id \in Id /\ (pc[w] # "idle" => cur[w].id \in used)
  /\ used \subseteq Id

(***************************************************************************)
(* read_all never meets a row whose files are missing or cut off, at       *)
(* whatever point the writers are or were killed.                          *)
(***************************************************************************)
RowsReadable == \A i \in Id : HasRow(i) => Readable(i)

(***************************************************************************)
(* "so a subsequent re-write doesn't trigger Invariant 1 spuriously", and  *)
(* the violation list does not grow on it: what is read back is accepted   *)
(* again and gives the same files and the same row.                        *)
(***************************************************************************)
RewriteStable ==
  \A i \in Id : HasRow(i) =>
    /\ Accepted(ReadBack(i))
    /\ TokenTable(ReadBack(i)) = tokens[i].data
    /\ Row(Checked(ReadBack(i))) = rows[i].data

(***************************************************************************)
(* The store is an append-only log of well-formed records: a row appears   *)
(* with all of its record, lists the lookup-sum violation exactly when the *)
(* sum exceeds the engine's total, and never changes.                      *)
(***************************************************************************)
Log == INSTANCE TraceLog WITH log <- [i \in {j \in Id : HasRow(j)} |-> ReadBack(i)]

ImplementsLog == Log!Spec
=============================================================================
