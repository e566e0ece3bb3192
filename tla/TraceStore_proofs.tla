--------------------------- MODULE TraceStore_proofs ---------------------------
(***************************************************************************)
(* Proofs about TraceStore, for any number of writers, any ids and any     *)
(* records, written any number of times and abandoned anywhere.            *)
(***************************************************************************)
EXTENDS TraceStore, TLAPS

RecordType ==
  [n : Nat, negative : BOOLEAN, tags : Seq({"skill_body", "other"}),
   lookups : Nat \cup {NoTotal}, total : Nat \cup {NoTotal}, flags : {0, 1}]

(***************************************************************************)
(* What the checks at the head of write() let through, with the violation  *)
(* they add.                                                               *)
(***************************************************************************)
Good(r) ==
  /\ r \in RecordType
  /\ Accepted(r)
  /\ r.flags = IF Exceeds(r) THEN 1 ELSE 0

(***************************************************************************)
(* All of record r is on disk under id i.                                  *)
(***************************************************************************)
TokensDone(i, r)  == tokens[i] = File(TokenTable(r))
LookupsDone(i, r) == r.lookups # NoTotal => lookups[i] = File(r.lookups)
Stored(i, r) == TokensDone(i, r) /\ LookupsDone(i, r) /\ rows[i] = File(Row(r))

Started(f) == f = Absent \/ f = Partial

(***************************************************************************)
(* The inductive invariant: active writers own distinct ids that have no   *)
(* row, the files of the steps behind a writer are complete, an id nobody  *)
(* has used has nothing on disk, and a row has all of its record.          *)
(***************************************************************************)
Shape ==
  /\ DOMAIN tokens = Id /\ tokens = [i \in Id |-> tokens[i]]
  /\ DOMAIN lookups = Id /\ lookups = [i \in Id |-> lookups[i]]
  /\ DOMAIN rows = Id /\ rows = [i \in Id |-> rows[i]]
  /\ cur \in [Writer -> [id : Id, rec : RecordType]]
  /\ pc \in [Writer -> {"idle", "tokens", "lookups", "insert"}]
  /\ used \subseteq Id

Owner ==
  \A w \in Writer : pc[w] # "idle" =>
    /\ cur[w].id \in used
    /\ rows[cur[w].id] = Absent
    /\ \A v \in Writer : pc[v] # "idle" /\ cur[v].id = cur[w].id => v = w

Behind(w) ==
  LET i == cur[w].id  r == cur[w].rec IN
  /\ pc[w] # "idle" => Good(r)
  /\ pc[w] = "tokens" => Started(tokens[i]) /\ lookups[i] = Absent
  /\ pc[w] = "lookups" => TokensDone(i, r) /\ r.lookups # NoTotal /\ Started(lookups[i])
  /\ pc[w] = "insert" => TokensDone(i, r) /\ LookupsDone(i, r)

Unused ==
  \A i \in Id \ used : tokens[i] = Absent /\ lookups[i] = Absent /\ rows[i] = Absent

Whole(i) == Good(ReadBack(i)) /\ Stored(i, ReadBack(i))

FileStates ==
  \A i \in Id : tokens[i].state \in States /\ lookups[i].state \in States

IInv ==
  /\ Shape
  /\ Owner
  /\ \A w \in Writer : Behind(w)
  /\ Unused
  /\ FileStates
  /\ \A i \in Id : rows[i] = Absent \/ (HasRow(i) /\ Whole(i))
-----------------------------------------------------------------------------
(***************************************************************************)
(* Files.                                                                  *)
(***************************************************************************)
LEMMA Files ==
  /\ Absent.state = "absent" /\ Partial.state = "partial"
  /\ Absent # Partial
  /\ \A x : File(x).state = "complete" /\ File(x).data = x
  /\ \A x : File(x) # Absent
  /\ \A f, x : Filled(f, x) = IF f = Absent THEN Partial ELSE File(x)
BY DEF Absent, Partial, File, Filled

(***************************************************************************)
(* The tags of a good record come back from its token table.               *)
(***************************************************************************)
LEMMA TagsFaithful ==
  ASSUME NEW r, Good(r)
  PROVE  TagsRead(TokenTable(r)) = r.tags
<1>1. r.tags \in Seq({"skill_body", "other"}) /\ r.n \in Nat
  BY DEF Good, RecordType
<1>2. CASE r.tags = <<>>
  <2>1. TokenTable(r).tags = [k \in 1..r.n |-> ""]
    BY <1>2 DEF TokenTable
  <2>2. \A k \in DOMAIN TokenTable(r).tags : TokenTable(r).tags[k] = ""
    BY <2>1
  <2> QED
    BY <2>2, <1>2 DEF TagsRead
<1>3. CASE r.tags # <<>>
  <2>1. TokenTable(r).tags = r.tags
    BY <1>3 DEF TokenTable
  <2>2. 1 \in DOMAIN r.tags /\ r.tags[1] \in {"skill_body", "other"}
    BY <1>1, <1>3
  <2>3. r.tags[1] # ""
    BY <2>2
  <2> QED
    BY <2>1, <2>2, <2>3 DEF TagsRead
<1> QED
  BY <1>2, <1>3

(***************************************************************************)
(* A reader gets back the record that was written.                         *)
(***************************************************************************)
LEMMA Faithful ==
  ASSUME NEW r, Good(r), NEW l, r.lookups # NoTotal => l = r.lookups
  PROVE  [n        |-> TokenTable(r).n,
          negative |-> FALSE,
          tags     |-> TagsRead(TokenTable(r)),
          lookups  |-> IF Row(r).path THEN l ELSE NoTotal,
          total    |-> Row(r).total,
          flags    |-> Row(r).flags] = r
<1>1. TagsRead(TokenTable(r)) = r.tags
  BY TagsFaithful
<1>2. r.negative = FALSE
  BY DEF Good, RecordType, Accepted
<1>3. TokenTable(r).n = r.n
  BY DEF TokenTable
<1>4. /\ Row(r).path <=> r.lookups # NoTotal
      /\ Row(r).total = r.total /\ Row(r).flags = r.flags
  BY DEF Row
<1>5. (IF Row(r).path THEN l ELSE NoTotal) = r.lookups
  BY <1>4
<1>6. r = [n |-> r.n, negative |-> r.negative, tags |-> r.tags, lookups |-> r.lookups,
           total |-> r.total, flags |-> r.flags]
  BY DEF Good, RecordType
<1> QED
  BY <1>1, <1>2, <1>3, <1>4, <1>5, <1>6

(***************************************************************************)
(* A good record passes the checks unchanged; a fresh one becomes good.    *)
(***************************************************************************)
LEMMA CheckedGood ==
  ASSUME NEW r, Good(r)
  PROVE  Checked(r) = r
BY DEF Good, Checked, Exceeds, RecordType

LEMMA FreshGood ==
  ASSUME NEW r \in Record, Accepted(r)
  PROVE  Good(Checked(r))
<1>1. r \in RecordType /\ r.flags = 0
  BY StoreAssumption DEF RecordType
<1>2. CASE Exceeds(r)
  <2>1. Checked(r) = [r EXCEPT !.flags = 1]
    BY <1>1, <1>2 DEF Checked, RecordType
  <2> QED
    BY <1>1, <1>2, <2>1 DEF Good, Exceeds, Accepted, RecordType
<1>3. CASE ~ Exceeds(r)
  <2>1. Checked(r) = r
    BY <1>1, <1>3 DEF Checked, RecordType
  <2> QED
    BY <1>1, <1>3, <2>1 DEF Good
<1> QED
  BY <1>2, <1>3

LEMMA GivenGood ==
  ASSUME IInv, NEW r \in Given, Accepted(r)
  PROVE  Good(Checked(r))
<1>1. CASE r \in Record
  BY <1>1, FreshGood
<1>2. ASSUME NEW j \in Id, HasRow(j), r = ReadBack(j) PROVE Good(Checked(r))
  <2>1. rows[j] # Absent
    BY <1>2, Files DEF HasRow
  <2>2. Good(r)
    BY <1>2, <2>1 DEF IInv, Whole
  <2> QED
    BY <2>2, CheckedGood
<1> QED
  BY <1>1, <1>2 DEF Given
-----------------------------------------------------------------------------
(***************************************************************************)
(* Steps.  A row whose files are not touched stays as it is.               *)
(***************************************************************************)
LEMMA RowKept ==
  ASSUME NEW i \in Id, tokens'[i] = tokens[i], rows'[i] = rows[i], lookups'[i] = lookups[i]
  PROVE  /\ ReadBack(i)' = ReadBack(i)
         /\ HasRow(i)' <=> HasRow(i)
         /\ Whole(i) => Whole(i)'
<1>1. ReadBack(i)' = ReadBack(i)
  BY DEF ReadBack
<1>2. HasRow(i)' <=> HasRow(i)
  BY DEF HasRow
<1>3. ASSUME Whole(i) PROVE Whole(i)'
  <2>1. Good(ReadBack(i)')
    BY <1>1, <1>3 DEF Whole
  <2>2. Stored(i, ReadBack(i))'
    BY <1>1, <1>3 DEF Whole, Stored, TokensDone, LookupsDone
  <2> QED
    BY <2>1, <2>2 DEF Whole
<1> QED
  BY <1>1, <1>2, <1>3

LEMMA InitInv == Init => IInv
<1> SUFFICES ASSUME Init PROVE IInv
  OBVIOUS
<1>1. NoRecord \in RecordType
  BY DEF NoRecord, RecordType
<1>2. (CHOOSE i \in Id : TRUE) \in Id
  BY StoreAssumption
<1>3. Shape
  BY <1>1, <1>2 DEF Init, Shape
<1>4. Owner /\ (\A w \in Writer : Behind(w)) /\ Unused
  BY DEF Init, Owner, Behind, Unused
<1>5. FileStates /\ \A i \in Id : rows[i] = Absent
  BY Files DEF Init, FileStates, States
<1> QED
  BY <1>3, <1>4, <1>5 DEF IInv

LEMMA BeginInv ==
  ASSUME IInv, NEW w \in Writer, NEW i \in Id, NEW r \in Given, Begin(w, i, r)
  PROVE  IInv'
<1>1. pc[w] = "idle" /\ i \notin used /\ used' = used \cup {i}
      /\ UNCHANGED <<tokens, lookups, rows>>
  BY DEF Begin, Taken
<1>2. tokens[i] = Absent /\ lookups[i] = Absent /\ rows[i] = Absent
  BY <1>1 DEF IInv, Unused
<1>3. FileStates' /\ Unused'
  BY <1>1 DEF IInv, FileStates, Unused
<1>4. \A j \in Id : (rows[j] = Absent \/ (HasRow(j) /\ Whole(j)))'
  BY <1>1, RowKept DEF IInv
<1>5. CASE Accepted(r)
  <2>1. /\ cur' = [cur EXCEPT ![w] = [id |-> i, rec |-> Checked(r)]]
        /\ pc' = [pc EXCEPT ![w] = "tokens"]
    BY <1>5 DEF Begin
  <2>2. Good(Checked(r)) /\ Checked(r) \in RecordType
    BY <1>5, GivenGood DEF Good
  <2>3. Shape'
    BY <1>1, <2>1, <2>2 DEF IInv, Shape
  <2>4. /\ cur'[w] = [id |-> i, rec |-> Checked(r)] /\ pc'[w] = "tokens"
        /\ \A v \in Writer \ {w} : cur'[v] = cur[v] /\ pc'[v] = pc[v]
    BY <2>1 DEF IInv, Shape
  <2>5. Owner'
    BY <1>1, <1>2, <2>4 DEF IInv, Owner
  <2>6. \A v \in Writer : Behind(v)'
    <3>1. Behind(w)'
      BY <1>1, <1>2, <2>2, <2>4 DEF Behind, Started
    <3>2. \A v \in Writer \ {w} : Behind(v)'
      BY <1>1, <2>4 DEF IInv, Behind, Started, TokensDone, LookupsDone
    <3> QED
      BY <3>1, <3>2
  <2> QED
    BY <1>3, <1>4, <2>3, <2>5, <2>6 DEF IInv
<1>6. CASE ~ Accepted(r)
  <2>1. UNCHANGED <<cur, pc>>
    BY <1>6 DEF Begin
  <2>2. Shape' /\ Owner'
    BY <1>1, <2>1 DEF IInv, Shape, Owner
  <2>3. \A v \in Writer : Behind(v)'
    BY <1>1, <2>1 DEF IInv, Behind, Started, TokensDone, LookupsDone
  <2> QED
    BY <1>3, <1>4, <2>2, <2>3 DEF IInv
<1> QED
  BY <1>5, <1>6

LEMMA WriteTokensInv ==
  ASSUME IInv, NEW w \in Writer, WriteTokens(w)
  PROVE  IInv'
<1> DEFINE c == cur[w].id
           r == cur[w].rec
<1>1. /\ pc[w] = "tokens" /\ c \in Id
      /\ tokens' = [tokens EXCEPT ![c] = Filled(@, TokenTable(r))]
      /\ pc' = [pc EXCEPT ![w] =
                  IF tokens[c] = Absent THEN "tokens"
                  ELSE IF r.lookups # NoTotal THEN "lookups" ELSE "insert"]
      /\ UNCHANGED <<lookups, rows, cur, used>>
  BY DEF WriteTokens, IInv, Shape
<1>2. c \in used /\ rows[c] = Absent /\ lookups[c] = Absent /\ Started(tokens[c]) /\ Good(r)
  BY <1>1 DEF IInv, Owner, Behind
<1>3. /\ tokens'[c] = IF tokens[c] = Absent THEN Partial ELSE File(TokenTable(r))
      /\ \A j \in Id \ {c} : tokens'[j] = tokens[j]
      /\ DOMAIN tokens' = Id /\ tokens' = [j \in Id |-> tokens'[j]]
  BY <1>1, Files DEF IInv, Shape
<1>4. /\ pc'[w] = IF tokens[c] = Absent THEN "tokens"
                  ELSE IF r.lookups # NoTotal THEN "lookups" ELSE "insert"
      /\ \A v \in Writer \ {w} : pc'[v] = pc[v]
      /\ pc' \in [Writer -> {"idle", "tokens", "lookups", "insert"}]
  BY <1>1 DEF IInv, Shape
<1>5. Shape'
  BY <1>1, <1>3, <1>4 DEF IInv, Shape
<1>6. Owner'
  BY <1>1, <1>4 DEF IInv, Owner
<1>7. Unused' /\ FileStates'
  <2>1. Unused'
    BY <1>1, <1>2, <1>3 DEF IInv, Unused
  <2>2. FileStates'
    BY <1>1, <1>3, Files DEF IInv, FileStates, States
  <2> QED
    BY <2>1, <2>2
<1>8. \A v \in Writer : Behind(v)'
  <2>1. Behind(w)'
    BY <1>1, <1>2, <1>3, <1>4 DEF Behind, Started, TokensDone, LookupsDone
  <2>2. ASSUME NEW v \in Writer \ {w} PROVE Behind(v)'
    <3>1. CASE pc[v] = "idle"
      BY <3>1, <1>4 DEF Behind
    <3>2. CASE pc[v] # "idle"
      <4>1. cur[v].id # c /\ cur[v].id \in Id
        BY <3>2, <1>1 DEF IInv, Owner, Shape
      <4> QED
        BY <4>1, <1>1, <1>3, <1>4 DEF IInv, Behind, Started, TokensDone, LookupsDone
    <3> QED
      BY <3>1, <3>2
  <2> QED
    BY <2>1, <2>2
<1>9. \A j \in Id : (rows[j] = Absent \/ (HasRow(j) /\ Whole(j)))'
  BY <1>1, <1>2, <1>3, RowKept DEF IInv
<1> QED
  BY <1>5, <1>6, <1>7, <1>8, <1>9 DEF IInv

LEMMA WriteLookupsInv ==
  ASSUME IInv, NEW w \in Writer, WriteLookups(w)
  PROVE  IInv'
<1> DEFINE c == cur[w].id
           r == cur[w].rec
<1>1. /\ pc[w] = "lookups" /\ c \in Id
      /\ lookups' = [lookups EXCEPT ![c] = Filled(@, r.lookups)]
      /\ pc' = [pc EXCEPT ![w] = IF lookups[c] = Absent THEN "lookups" ELSE "insert"]
      /\ UNCHANGED <<tokens, rows, cur, used>>
  BY DEF WriteLookups, AfterLookups, IInv, Shape
<1>2. /\ c \in used /\ rows[c] = Absent /\ Started(lookups[c]) /\ Good(r)
      /\ TokensDone(c, r) /\ r.lookups # NoTotal
  BY <1>1 DEF IInv, Owner, Behind
<1>3. /\ lookups'[c] = IF lookups[c] = Absent THEN Partial ELSE File(r.lookups)
      /\ \A j \in Id \ {c} : lookups'[j] = lookups[j]
      /\ DOMAIN lookups' = Id /\ lookups' = [j \in Id |-> lookups'[j]]
  BY <1>1, Files DEF IInv, Shape
<1>4. /\ pc'[w] = IF lookups[c] = Absent THEN "lookups" ELSE "insert"
      /\ \A v \in Writer \ {w} : pc'[v] = pc[v]
      /\ pc' \in [Writer -> {"idle", "tokens", "lookups", "insert"}]
  BY <1>1 DEF IInv, Shape
<1>5. Shape'
  BY <1>1, <1>3, <1>4 DEF IInv, Shape
<1>6. Owner'
  BY <1>1, <1>4 DEF IInv, Owner
<1>7. Unused' /\ FileStates'
  <2>1. Unused'
    BY <1>1, <1>2, <1>3 DEF IInv, Unused
  <2>2. FileStates'
    BY <1>1, <1>3, Files DEF IInv, FileStates, States
  <2> QED
    BY <2>1, <2>2
<1>8. \A v \in Writer : Behind(v)'
  <2>1. Behind(w)'
    BY <1>1, <1>2, <1>3, <1>4 DEF Behind, Started, TokensDone, LookupsDone
  <2>2. ASSUME NEW v \in Writer \ {w} PROVE Behind(v)'
    <3>1. CASE pc[v] = "idle"
      BY <3>1, <1>4 DEF Behind
    <3>2. CASE pc[v] # "idle"
      <4>1. cur[v].id # c /\ cur[v].id \in Id
        BY <3>2, <1>1 DEF IInv, Owner, Shape
      <4> QED
        BY <4>1, <1>1, <1>3, <1>4 DEF IInv, Behind, Started, TokensDone, LookupsDone
    <3> QED
      BY <3>1, <3>2
  <2> QED
    BY <2>1, <2>2
<1>9. \A j \in Id : (rows[j] = Absent \/ (HasRow(j) /\ Whole(j)))'
  BY <1>1, <1>2, <1>3, RowKept DEF IInv
<1> QED
  BY <1>5, <1>6, <1>7, <1>8, <1>9 DEF IInv

(***************************************************************************)
(* The row of a record whose files are complete reads back as the record.  *)
(***************************************************************************)
LEMMA Inserted ==
  ASSUME IInv, NEW w \in Writer, Insert(w), NEW c, c = cur[w].id
  PROVE  /\ pc[w] = "insert" /\ c \in Id /\ rows[c] = Absent
         /\ rows' = [rows EXCEPT ![c] = File(Row(cur[w].rec))]
         /\ Good(cur[w].rec)
         /\ HasRow(c)'
         /\ ReadBack(c)' = cur[w].rec
         /\ Whole(c)'
         /\ \A j \in Id \ {c} :
              /\ rows'[j] = rows[j]
              /\ ReadBack(j)' = ReadBack(j)
              /\ HasRow(j)' <=> HasRow(j)
              /\ Whole(j) => Whole(j)'
<1> DEFINE r == cur[w].rec
<1>1. /\ pc[w] = "insert" /\ c \in Id /\ rows[c] = Absent /\ Good(r)
      /\ TokensDone(c, r) /\ LookupsDone(c, r)
      /\ rows' = [rows EXCEPT ![c] = File(Row(r))]
      /\ UNCHANGED <<tokens, lookups, cur, used>>
  BY DEF Insert, IInv, Shape, Owner, Behind
<1>2. rows'[c] = File(Row(r)) /\ \A j \in Id \ {c} : rows'[j] = rows[j]
  BY <1>1 DEF IInv, Shape
<1>3. /\ tokens'[c].data = TokenTable(r)
      /\ rows'[c].data = Row(r) /\ rows'[c].state = "complete"
      /\ r.lookups # NoTotal => lookups'[c].data = r.lookups
  BY <1>1, <1>2, Files DEF TokensDone, LookupsDone
<1>4. ReadBack(c)' = r
  <2>1. ReadBack(c)' = [n        |-> TokenTable(r).n,
                        negative |-> FALSE,
                        tags     |-> TagsRead(TokenTable(r)),
                        lookups  |-> IF Row(r).path THEN lookups'[c].data ELSE NoTotal,
                        total    |-> Row(r).total,
                        flags    |-> Row(r).flags]
    BY <1>1, <1>3 DEF ReadBack
  <2> QED
    BY <2>1, <1>1, <1>3, Faithful
<1>5. HasRow(c)'
  BY <1>1, <1>3 DEF HasRow
<1>6. Whole(c)'
  <2>1. Stored(c, r)'
    BY <1>1, <1>2 DEF Stored, TokensDone, LookupsDone
  <2>2. Stored(c, ReadBack(c))'
    BY <2>1, <1>1, <1>2, <1>4 DEF Stored, TokensDone, LookupsDone
  <2> QED
    BY <2>2, <1>1, <1>4 DEF Whole
<1>7. \A j \in Id \ {c} : /\ rows'[j] = rows[j]
                          /\ ReadBack(j)' = ReadBack(j)
                          /\ HasRow(j)' <=> HasRow(j)
                          /\ Whole(j) => Whole(j)'
  BY <1>1, <1>2, RowKept
<1> QED
  BY <1>1, <1>4, <1>5, <1>6, <1>7

LEMMA InsertInv ==
  ASSUME IInv, NEW w \in Writer, Insert(w)
  PROVE  IInv'
<1> PICK c : c = cur[w].id
  OBVIOUS
<1>1. /\ pc' = [pc EXCEPT ![w] = "idle"]
      /\ UNCHANGED <<tokens, lookups, cur, used>>
  BY DEF Insert
<1>2. /\ c \in Id /\ pc[w] = "insert"
      /\ rows' = [rows EXCEPT ![c] = File(Row(cur[w].rec))]
      /\ HasRow(c)' /\ Whole(c)'
      /\ \A j \in Id \ {c} : /\ rows'[j] = rows[j]
                             /\ HasRow(j)' <=> HasRow(j)
                             /\ Whole(j) => Whole(j)'
  BY Inserted
<1>3. c \in used
  BY <1>2 DEF IInv, Owner
<1>4. /\ pc'[w] = "idle" /\ \A v \in Writer \ {w} : pc'[v] = pc[v]
      /\ pc' \in [Writer -> {"idle", "tokens", "lookups", "insert"}]
  BY <1>1 DEF IInv, Shape
<1>5. Shape'
  BY <1>1, <1>2, <1>4 DEF IInv, Shape
<1>6. Owner'
  <2>1. \A v \in Writer : pc'[v] # "idle" => v # w /\ cur[v].id # c /\ cur[v].id \in Id
    BY <1>2, <1>4 DEF IInv, Owner, Shape
  <2> QED
    BY <2>1, <1>1, <1>2, <1>4 DEF IInv, Owner
<1>7. Unused' /\ FileStates'
  BY <1>1, <1>2, <1>3 DEF IInv, Unused, FileStates
<1>8. \A v \in Writer : Behind(v)'
  BY <1>1, <1>4 DEF IInv, Behind, Started, TokensDone, LookupsDone
<1>9. \A j \in Id : (rows[j] = Absent \/ (HasRow(j) /\ Whole(j)))'
  <2>1. ASSUME NEW j \in Id \ {c} PROVE (rows[j] = Absent \/ (HasRow(j) /\ Whole(j)))'
    <3>1. CASE rows[j] = Absent
      BY <3>1, <1>2, <2>1
    <3>2. CASE HasRow(j) /\ Whole(j)
      BY <3>2, <1>2, <2>1
    <3> QED
      BY <3>1, <3>2 DEF IInv
  <2> QED
    BY <2>1, <1>2
<1> QED
  BY <1>5, <1>6, <1>7, <1>8, <1>9 DEF IInv

LEMMA AbandonInv ==
  ASSUME IInv, NEW w \in Writer, Abandon(w)
  PROVE  IInv'
<1>1. /\ pc' = [pc EXCEPT ![w] = "idle"]
      /\ UNCHANGED <<tokens, lookups, rows, cur, used>>
  BY DEF Abandon
<1>2. /\ pc'[w] = "idle" /\ \A v \in Writer \ {w} : pc'[v] = pc[v]
      /\ pc' \in [Writer -> {"idle", "tokens", "lookups", "insert"}]
      /\ w \in Writer
  BY <1>1 DEF IInv, Shape
<1>3. Shape' /\ Owner' /\ Unused' /\ FileStates'
  BY <1>1, <1>2 DEF IInv, Shape, Owner, Unused, FileStates
<1>4. \A v \in Writer : Behind(v)'
  BY <1>1, <1>2 DEF IInv, Behind, Started, TokensDone, LookupsDone
<1>5. \A j \in Id : (rows[j] = Absent \/ (HasRow(j) /\ Whole(j)))'
  BY <1>1, RowKept DEF IInv
<1> QED
  BY <1>3, <1>4, <1>5 DEF IInv

LEMMA NextInv == IInv /\ [Next]_vars => IInv'
<1> SUFFICES ASSUME IInv, [Next]_vars PROVE IInv'
  OBVIOUS
<1>1. ASSUME NEW w \in Writer, NEW i \in Id, NEW r \in Given, Begin(w, i, r) PROVE IInv'
  BY <1>1, BeginInv
<1>2. ASSUME NEW w \in Writer, WriteTokens(w) PROVE IInv'
  BY <1>2, WriteTokensInv
<1>3. ASSUME NEW w \in Writer, WriteLookups(w) PROVE IInv'
  BY <1>3, WriteLookupsInv
<1>4. ASSUME NEW w \in Writer, Insert(w) PROVE IInv'
  BY <1>4, InsertInv
<1>5. ASSUME NEW w \in Writer, Abandon(w) PROVE IInv'
  BY <1>5, AbandonInv
<1>6. CASE UNCHANGED vars
  <2>1. UNCHANGED <<tokens, lookups, rows, pc, cur, used>>
    BY <1>6 DEF vars
  <2>2. Shape' /\ Owner' /\ Unused' /\ FileStates'
    BY <2>1 DEF IInv, Shape, Owner, Unused, FileStates
  <2>3. \A v \in Writer : Behind(v)'
    BY <2>1 DEF IInv, Behind, Started, TokensDone, LookupsDone
  <2>4. \A j \in Id : (rows[j] = Absent \/ (HasRow(j) /\ Whole(j)))'
    BY <2>1, RowKept DEF IInv
  <2> QED
    BY <2>2, <2>3, <2>4 DEF IInv
<1> QED
  BY <1>1, <1>2, <1>3, <1>4, <1>5, <1>6 DEF Next

(***************************************************************************)
(* The inductive invariant holds in every reachable state.                 *)
(***************************************************************************)
THEOREM Invariance == Spec => []IInv
<1> QED
  BY InitInv, NextInv, PTL DEF Spec
-----------------------------------------------------------------------------
(***************************************************************************)
(* The types of the variables.                                             *)
(***************************************************************************)
THEOREM TypeCorrect == Spec => []TypeOK
<1>1. IInv => TypeOK
  <2> SUFFICES ASSUME IInv PROVE TypeOK
    OBVIOUS
  <2>1. \A i \in Id : rows[i].state \in {"absent", "complete"}
    BY Files DEF IInv, HasRow
  <2>2. \A w \in Writer : cur[w].id \in Id /\ (pc[w] # "idle" => cur[w].id \in used)
    BY DEF IInv, Shape, Owner
  <2> QED
    BY <2>1, <2>2 DEF IInv, Shape, FileStates, TypeOK
<1> QED
  BY <1>1, Invariance, PTL

(***************************************************************************)
(* No row is ever without its complete files (trace_store.py, the order of *)
(* the three writes).                                                      *)
(***************************************************************************)
THEOREM AlwaysReadable == Spec => []RowsReadable
<1>1. IInv => RowsReadable
  <2> SUFFICES ASSUME IInv, NEW i \in Id, HasRow(i) PROVE Readable(i)
    BY DEF RowsReadable
  <2> DEFINE r == ReadBack(i)
  <2>1. Stored(i, r)
    BY Files DEF IInv, HasRow, Whole
  <2>2. rows[i].data.path <=> r.lookups # NoTotal
    <3>1. rows[i].data = Row(r)
      BY <2>1, Files DEF Stored
    <3>2. Row(r).path <=> r.lookups # NoTotal
      BY DEF Row
    <3> QED
      BY <3>1, <3>2
  <2> QED
    BY <2>1, <2>2, Files DEF Stored, TokensDone, LookupsDone, Readable
<1> QED
  BY <1>1, Invariance, PTL

(***************************************************************************)
(* A record that was read back can be written again and comes out the      *)
(* same (trace_store.py, the placeholder tags and the violation list).     *)
(***************************************************************************)
THEOREM RewritesAlike == Spec => []RewriteStable
<1>1. IInv => RewriteStable
  <2> SUFFICES ASSUME IInv, NEW i \in Id, HasRow(i)
               PROVE  /\ Accepted(ReadBack(i))
                      /\ TokenTable(ReadBack(i)) = tokens[i].data
                      /\ Row(Checked(ReadBack(i))) = rows[i].data
    BY DEF RewriteStable
  <2> DEFINE r == ReadBack(i)
  <2>1. Good(r) /\ Stored(i, r)
    BY Files DEF IInv, HasRow, Whole
  <2>2. Checked(r) = r
    BY <2>1, CheckedGood
  <2> QED
    BY <2>1, <2>2, Files DEF Good, Stored, TokensDone
<1> QED
  BY <1>1, Invariance, PTL
-----------------------------------------------------------------------------
(***************************************************************************)
(* The refinement of TraceLog.  Only an insertion changes the log, and it  *)
(* adds a well-formed record.                                              *)
(***************************************************************************)
Entries == {j \in Id : HasRow(j)}
AsLog == [i \in Entries |-> ReadBack(i)]

LEMMA GoodIsWellFormed ==
  ASSUME NEW r, Good(r)
  PROVE  Log!WellFormed(r)
<1>1. r.tags \in Seq({"skill_body", "other"})
  BY DEF Good, RecordType
<1>2. \A k \in DOMAIN r.tags : r.tags[k] # ""
  <2> SUFFICES ASSUME NEW k \in DOMAIN r.tags PROVE r.tags[k] # ""
    OBVIOUS
  <2>1. r.tags[k] \in {"skill_body", "other"}
    BY <1>1
  <2> QED
    BY <2>1
<1> QED
  BY <1>2 DEF Good, Accepted, Exceeds, Log!WellFormed, Log!Exceeds, NoTotal, Log!NoTotal

LEMMA LogKept ==
  ASSUME \A j \in Id : (HasRow(j)' <=> HasRow(j)) /\ (HasRow(j) => ReadBack(j)' = ReadBack(j))
  PROVE  AsLog' = AsLog
<1>1. Entries' = Entries
  BY DEF Entries
<1>2. \A j \in Entries : ReadBack(j)' = ReadBack(j)
  BY DEF Entries
<1> QED
  BY <1>1, <1>2 DEF AsLog

LEMMA FilesKept ==
  ASSUME IInv, NEW c \in Id, rows[c] = Absent, rows' = rows,
         \A j \in Id \ {c} : tokens'[j] = tokens[j] /\ lookups'[j] = lookups[j]
  PROVE  AsLog' = AsLog
<1>1. ~ HasRow(c) /\ ~ HasRow(c)'
  BY Files DEF HasRow
<1>2. \A j \in Id \ {c} : (HasRow(j)' <=> HasRow(j)) /\ ReadBack(j)' = ReadBack(j)
  BY RowKept
<1> QED
  BY <1>1, <1>2, LogKept

LEMMA InsertAdds ==
  ASSUME IInv, NEW w \in Writer, Insert(w)
  PROVE  Log!Next
<1> PICK c : c = cur[w].id
  OBVIOUS
<1>1. /\ c \in Id /\ rows[c] = Absent /\ Good(cur[w].rec)
      /\ HasRow(c)' /\ ReadBack(c)' = cur[w].rec
      /\ \A j \in Id \ {c} : ReadBack(j)' = ReadBack(j) /\ (HasRow(j)' <=> HasRow(j))
  BY Inserted
<1>2. c \notin Entries
  BY <1>1, Files DEF Entries, HasRow
<1>3. Entries' = Entries \cup {c}
  BY <1>1 DEF Entries
<1>4. \A j \in Entries : j \in Id \ {c}
  BY <1>2 DEF Entries
<1>5. DOMAIN AsLog = Entries /\ DOMAIN AsLog' = Entries'
  BY DEF AsLog
<1>6. /\ \A j \in Entries : AsLog[j] = ReadBack(j)
      /\ \A j \in Entries' : AsLog'[j] = ReadBack(j)'
  BY DEF AsLog
<1>7. \A j \in Entries : AsLog'[j] = AsLog[j]
  BY <1>1, <1>3, <1>4, <1>6
<1>8. Log!WellFormed(AsLog'[c])
  BY <1>1, <1>3, <1>6, GoodIsWellFormed
<1>9. Log!Add(c)
  BY <1>2, <1>3, <1>5, <1>7, <1>8 DEF Log!Add, AsLog, Entries
<1> QED
  BY <1>1, <1>9 DEF Log!Next

LEMMA StepOfLog == IInv /\ [Next]_vars => Log!Next \/ AsLog' = AsLog
<1> SUFFICES ASSUME IInv, [Next]_vars PROVE Log!Next \/ AsLog' = AsLog
  OBVIOUS
<1>1. ASSUME UNCHANGED <<tokens, lookups, rows>> PROVE AsLog' = AsLog
  BY <1>1, RowKept, LogKept
<1>2. ASSUME NEW w \in Writer, NEW i \in Id, NEW r \in Given, Begin(w, i, r)
      PROVE AsLog' = AsLog
  BY <1>2, <1>1 DEF Begin
<1>3. ASSUME NEW w \in Writer, WriteTokens(w) PROVE AsLog' = AsLog
  <2>1. cur[w].id \in Id /\ rows[cur[w].id] = Absent
    BY <1>3 DEF WriteTokens, IInv, Shape, Owner
  <2>2. /\ rows' = rows /\ lookups' = lookups
        /\ \A j \in Id \ {cur[w].id} : tokens'[j] = tokens[j]
    BY <1>3 DEF WriteTokens, IInv, Shape
  <2> QED
    BY <2>1, <2>2, FilesKept
<1>4. ASSUME NEW w \in Writer, WriteLookups(w) PROVE AsLog' = AsLog
  <2>1. cur[w].id \in Id /\ rows[cur[w].id] = Absent
    BY <1>4 DEF WriteLookups, IInv, Shape, Owner
  <2>2. /\ rows' = rows /\ tokens' = tokens
        /\ \A j \in Id \ {cur[w].id} : lookups'[j] = lookups[j]
    BY <1>4 DEF WriteLookups, IInv, Shape
  <2> QED
    BY <2>1, <2>2, FilesKept
<1>5. ASSUME NEW w \in Writer, Insert(w) PROVE Log!Next
  BY <1>5, InsertAdds
<1>6. ASSUME NEW w \in Writer, Abandon(w) PROVE AsLog' = AsLog
  BY <1>6, <1>1 DEF Abandon
<1>7. CASE UNCHANGED vars
  BY <1>7, <1>1 DEF vars
<1> QED
  BY <1>2, <1>3, <1>4, <1>5, <1>6, <1>7 DEF Next

(***************************************************************************)
(* write() and read_all together are an append-only log of well-formed     *)
(* records, whoever else writes and wherever a writer is killed.           *)
(***************************************************************************)
THEOREM Refinement == Spec => ImplementsLog
<1>1. Init => Log!Init
  <2> SUFFICES ASSUME Init PROVE Log!Init
    OBVIOUS
  <2>1. \A j \in Id : ~ HasRow(j)
    BY Files DEF Init, HasRow
  <2> QED
    BY <2>1 DEF Log!Init
<1>2. IInv /\ [Next]_vars => [Log!Next]_AsLog
  BY StepOfLog
<1>3. IInv /\ [Next]_vars => [Log!Next]_[i \in {j \in Id : HasRow(j)} |-> ReadBack(i)]
  BY <1>2 DEF AsLog, Entries
<1> QED
  BY <1>1, <1>3, Invariance, PTL DEF Spec, ImplementsLog, Log!Spec
=============================================================================
