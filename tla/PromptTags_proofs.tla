-------------------------- MODULE PromptTags_proofs --------------------------
(***************************************************************************)
(* The path of a payload through the proxy, for every set of payloads,     *)
(* skills and anchors, however long a payload is and however often it is   *)
(* rewritten: the segments inject_separators works with are disjoint and   *)
(* in order, a match is given up only for one of higher precedence, only   *)
(* separators are injected, repeating it comes to an end, and every token  *)
(* is tagged once.                                                         *)
(***************************************************************************)
EXTENDS PromptTags, SequenceTheorems, FiniteSetTheorems, WellFoundedInduction, TLAPS

(***************************************************************************)
(* TypeOK with what the proofs need of sequences; SearchOK says that the   *)
(* matches of one pattern, which finditer finds one after the other, do    *)
(* not overlap, and ResolveOK that matches are resolved by their starts.   *)
(***************************************************************************)
Types ==
  /\ TypeOK
  /\ given \in Seq(Atom) /\ text \in Seq(Atom) /\ out \in Seq(Atom)
  /\ accepted \in Seq(found)

Clear(r, q) == r.end <= q.start \/ q.end <= r.start

SearchOK ==
  /\ pc \in {"arrived", "find"} => raw = found /\ accepted = <<>>
  /\ pc = "arrived" => kind = 1 /\ found = {}
  /\ pc \in {"arrived", "find", "resolve"} => seg = 1
  /\ pc = "find" => \A r \in found :
       /\ r.prec >= Prec(kind)
       /\ r.prec = Prec(kind) => r.end <= pos
  /\ \A r \in found : \A q \in found : r # q /\ r.prec = q.prec => Clear(r, q)

ResolveOK ==
  \A i \in DOMAIN accepted : \A r \in raw :
    accepted[i] # r /\ accepted[i].start <= r.start

IInv == Types /\ SearchOK /\ ResolveOK /\ SegmentsDisjoint /\ DroppedForHigher
-----------------------------------------------------------------------------
LEMMA KindType ==
  /\ \A k \in 1..9 : Prec(k) \in Int
  /\ \A k \in Kinds : \A l \in 1..9 : k < l => Prec(k) > Prec(l)
BY DEF Prec, Kinds

LEMMA LastOfSeq ==
  ASSUME NEW S, NEW s \in Seq(S), s # <<>>
  PROVE  /\ Len(s) \in Nat \ {0} /\ Len(s) \in DOMAIN s /\ Last(s) = s[Len(s)] /\ Last(s) \in S
         /\ Front(s) \in Seq(S) /\ Len(Front(s)) = Len(s) - 1
         /\ \A i \in 1 .. Len(s) - 1 : Front(s)[i] = s[i]
<1>1. Len(s) \in Nat \ {0} /\ DOMAIN s = 1 .. Len(s)
  BY EmptySeq, LenProperties
<1>2. \A i \in 1 .. Len(s) - 1 : s[i] \in S
  BY <1>1, ElementOfSeq
<1>3. /\ SubSeq(s, 1, Len(s) - 1) \in Seq(S)
      /\ Len(SubSeq(s, 1, Len(s) - 1)) = IF 1 <= Len(s) - 1 THEN Len(s) - 1 - 1 + 1 ELSE 0
      /\ \A i \in 1 .. Len(s) - 1 - 1 + 1 : SubSeq(s, 1, Len(s) - 1)[i] = s[1 + i - 1]
  BY <1>1, <1>2, SubSeqProperties
<1>4. Last(s) = s[Len(s)] /\ Front(s) = SubSeq(s, 1, Len(s) - 1)
  BY DEF Last, Front
<1>5. s[Len(s)] \in S
  BY <1>1, ElementOfSeq
<1>6. QED
  BY <1>1, <1>3, <1>4, <1>5

LEMMA SliceType ==
  ASSUME NEW t \in Seq(Atom), NEW s \in Nat \ {0}, NEW e \in Int, e <= Len(t)
  PROVE  SubSeq(t, s, e) \in Seq(Atom)
<1>1. \A i \in s .. e : t[i] \in Atom
  BY LenProperties, ElementOfSeq
<1>2. QED
  BY <1>1, SubSeqProperties

LEMMA MatchFields ==
  ASSUME text \in Seq(Atom), NEW r, MatchType(r)
  PROVE  r.start \in Int /\ r.end \in Int /\ r.start < r.end /\ r.prec \in Int
<1>1. Len(text) \in Nat
  BY LenProperties
<1>2. r.prec \in Int
  BY DEF MatchType, Kinds, Prec
<1>3. QED
  BY <1>1, <1>2 DEF MatchType

LEMMA MatchFound ==
  ASSUME Types, kind \in Kinds, NEW m \in Matches(kind, text, pos)
  PROVE  /\ MatchType(Match(kind, m))
         /\ Match(kind, m).start >= pos /\ Match(kind, m).prec = Prec(kind)
<1>1. /\ m[1] \in pos .. Len(text) /\ m[2] \in pos + 1 .. Len(text) + 1 /\ m[1] < m[2]
  BY DEF Matches, Spans
<1>2. pos \in 1 .. Len(text) + 1 /\ Len(text) \in Nat
  BY LenProperties DEF Types, TypeOK
<1>3. QED
  BY <1>1, <1>2 DEF MatchType, Match

(***************************************************************************)
(* Placeholders take the place of values, atom by atom.                    *)
(***************************************************************************)
LEMMA NormalType ==
  ASSUME NEW t \in Seq(Atom)
  PROVE  /\ Normal(t) \in Seq(Atom) /\ Len(Normal(t)) = Len(t)
         /\ \A p \in DOMAIN t : Normal(t)[p] = NormalAtom(t[p])
         /\ Values(Normal(t)) = {} /\ (Values(t) = {} => Normal(t) = t)
<1>1. Len(t) \in Nat /\ DOMAIN t = 1 .. Len(t) /\ \A p \in DOMAIN t : t[p] \in Atom
  BY LenProperties, ElementOfSeq
<1>2. \A a \in Atom : NormalAtom(a) \in Atom
  BY ParserAssumption DEF NormalAtom
<1>3. Normal(t) \in [1 .. Len(t) -> Atom]
  BY <1>1, <1>2 DEF Normal
<1>4. Normal(t) \in Seq(Atom) /\ Len(Normal(t)) = Len(t) /\ DOMAIN Normal(t) = DOMAIN t
  BY <1>1, <1>3, LenProperties
<1>5. \A p \in DOMAIN t : Normal(t)[p] = NormalAtom(t[p])
  BY DEF Normal
<1>6. \A a : NormalAtom(a) \notin CchValues \cup VersionValues
  BY DEF NormalAtom, CchValues, VersionValues, CchPlaceholder, VersionPlaceholder
<1>7. Values(Normal(t)) = {}
  BY <1>4, <1>5, <1>6 DEF Values
<1>8. ASSUME Values(t) = {} PROVE Normal(t) = t
  <2>1. \A p \in DOMAIN t : Normal(t)[p] = t[p]
    BY <1>5, <1>8 DEF Values, NormalAtom
  <2> QED BY <1>1, <1>4, <2>1, SeqEqual
<1> QED BY <1>4, <1>5, <1>7, <1>8

LEMMA IInvInit == Init => IInv
BY SMTT(40), ParserAssumption, EmptySeq, LenProperties, KindType
   DEF Init, IInv, Types, TypeOK, SearchOK, ResolveOK, SegmentsDisjoint, DroppedForHigher

(***************************************************************************)
(* The search.                                                             *)
(***************************************************************************)
LEMMA FindStep ==
  ASSUME IInv, Find
  PROVE  IInv'
<1>1. PICK m \in Matches(kind, text, pos) :
        /\ raw' = raw \cup {Match(kind, m)} /\ found' = found \cup {Match(kind, m)}
        /\ pos' = m[2]
  BY DEF Find
<1> DEFINE r == Match(kind, m)
<1>2. MatchType(r) /\ r.start >= pos /\ r.prec = Prec(kind) /\ r.end = m[2]
  BY MatchFound DEF IInv, Find, Match
<1>3. pc = "find" /\ kind \in Kinds /\ pos \in Int /\ Len(text) \in Nat /\ Prec(kind) \in Int
  BY LenProperties DEF IInv, Types, TypeOK, Find, Kinds, Prec
<1>4. /\ raw = found /\ accepted = <<>> /\ accepted' = <<>> /\ raw' = found'
      /\ seg' = 1 /\ pc' = "find" /\ kind' = kind
  BY <1>1, <1>3 DEF IInv, SearchOK, Find
<1>a. /\ r.start \in Int /\ r.end \in Int /\ r.start < r.end
      /\ \A q \in found : q.start \in Int /\ q.end \in Int /\ q.prec \in Int
  BY <1>2, MatchFields DEF IInv, Types, TypeOK
<1>5. Types'
  <2>1. pos' \in 1 .. Len(text) + 1
    BY <1>1, <1>2, <1>3, <1>a DEF MatchType
  <2>2. \A q \in found' : MatchType(q)'
    BY <1>1, <1>2 DEF IInv, Types, TypeOK, Find, MatchType
  <2>3. accepted' \in Seq(found') /\ DOMAIN accepted' = {} /\ Len(accepted') = 0
    BY <1>4, EmptySeq
  <2>4. QED
    BY <1>4, <2>1, <2>2, <2>3 DEF IInv, Types, TypeOK, Find
<1>6. \A q \in found : q.prec = r.prec => q.end <= r.start
  BY <1>2, <1>3, <1>a DEF IInv, SearchOK
<1>7. SearchOK'
  <2>1. \A q \in found' : q.prec >= Prec(kind) /\ (q.prec = Prec(kind) => q.end <= pos')
    <3>1. SUFFICES ASSUME NEW q \in found'
                   PROVE  q.prec >= Prec(kind) /\ (q.prec = Prec(kind) => q.end <= pos')
      OBVIOUS
    <3>2. CASE q = r
      BY <1>1, <1>2, <1>3, <1>a, <3>2
    <3>3. CASE q \in found
      <4>1. q.prec >= Prec(kind) /\ (q.prec = Prec(kind) => q.end <= pos)
        BY <1>3, <3>3 DEF IInv, SearchOK
      <4>2. pos <= pos'
        BY <1>1, <1>2, <1>3, <1>a
      <4>3. pos' \in Int
        BY <1>1, <1>2, <1>a
      <4>4. QED
        BY <1>3, <1>a, <3>3, <4>1, <4>2, <4>3
    <3>4. QED
      BY <1>1, <3>2, <3>3
  <2>2. \A q \in found' : \A x \in found' : q # x /\ q.prec = x.prec => Clear(q, x)
    BY <1>1, <1>6 DEF IInv, SearchOK, Clear
  <2>3. QED
    BY <1>4, <2>1, <2>2 DEF SearchOK
<1>8. ResolveOK' /\ SegmentsDisjoint' /\ DroppedForHigher'
  BY <1>4, EmptySeq DEF ResolveOK, SegmentsDisjoint, DroppedForHigher
<1>9. QED
  BY <1>5, <1>7, <1>8 DEF IInv

LEMMA NextKindStep ==
  ASSUME IInv, NextKind
  PROVE  IInv'
<1>1. /\ kind \in Kinds /\ kind' = kind + 1 /\ pos' = 1 /\ pc = "find" /\ pc' = "find"
      /\ Len(text) \in Nat
      /\ UNCHANGED <<given, text, raw, accepted, seg, cursor, out, found, rewrites>>
  BY LenProperties DEF NextKind, IInv, Types
<1>2. kind' \in 1..9 /\ Prec(kind) > Prec(kind') /\ Prec(kind) \in Int /\ Prec(kind') \in Int
  BY <1>1 DEF Kinds, Prec
<1>3. Types'
  BY <1>1, <1>2 DEF IInv, Types, TypeOK, MatchType
<1>4. SearchOK'
  <2>1. \A r \in found : r.prec \in Int /\ r.prec >= Prec(kind)
    BY <1>1, MatchFields DEF IInv, SearchOK, Types, TypeOK
  <2>2. \A r \in found' : r.prec >= Prec(kind') /\ r.prec # Prec(kind')
    BY <1>1, <1>2, <2>1
  <2>3. raw' = found' /\ accepted' = <<>> /\ seg' = 1
    BY <1>1 DEF IInv, SearchOK
  <2>4. \A r \in found' : \A q \in found' : r # q /\ r.prec = q.prec => Clear(r, q)
    BY <1>1 DEF IInv, SearchOK
  <2>5. QED
    BY <1>1, <2>2, <2>3, <2>4 DEF SearchOK
<1>5. ResolveOK' /\ SegmentsDisjoint' /\ DroppedForHigher'
  BY <1>1 DEF IInv, ResolveOK, SegmentsDisjoint, DroppedForHigher
<1>6. QED
  BY <1>3, <1>4, <1>5 DEF IInv

(***************************************************************************)
(* The resolution.                                                         *)
(***************************************************************************)
LEMMA Rivals ==
  ASSUME IInv, NEW r \in raw, accepted # <<>>, Overlaps(r)
  PROVE  LET p == Last(accepted) IN
           /\ p \in found /\ p # r /\ Overlap(r, p) /\ r.prec # p.prec
           /\ r.prec \in Int /\ p.prec \in Int
<1> DEFINE p == Last(accepted)
<1>1. p \in found /\ p # r /\ p.start <= r.start
  BY LastOfSeq DEF IInv, Types, ResolveOK
<1>2. r \in found /\ MatchType(r) /\ MatchType(p)
  BY <1>1 DEF IInv, Types, TypeOK
<1>3. /\ r.start \in Int /\ r.end \in Int /\ p.start \in Int /\ p.end \in Int
      /\ r.start < r.end /\ r.prec \in Int /\ p.prec \in Int
  BY <1>2, MatchFields DEF IInv, Types
<1>4. r.start < p.end
  BY DEF Overlaps
<1>5. Overlap(r, p)
  BY <1>1, <1>3, <1>4 DEF Overlap
<1>6. r.prec # p.prec
  BY <1>1, <1>2, <1>3, <1>4 DEF IInv, SearchOK, Clear
<1>7. QED
  BY <1>1, <1>3, <1>5, <1>6

LEMMA KeepLast ==
  ASSUME IInv, NEW r \in raw, \A q \in raw : r.start <= q.start
  PROVE  /\ Keep(r) \in Seq(found)
         /\ \A i \in DOMAIN Keep(r) : \A q \in raw \ {r} :
              Keep(r)[i] # q /\ Keep(r)[i].start <= q.start
         /\ \A i \in DOMAIN Keep(r) : \A j \in DOMAIN Keep(r) :
              i < j => Keep(r)[i].end <= Keep(r)[j].start
         /\ \A x \in found \ (raw \ {r}) :
              \/ \E i \in DOMAIN Keep(r) : Keep(r)[i] = x
              \/ \E q \in found : q.prec > x.prec /\ Overlap(q, x)
<1>1. r \in found /\ accepted \in Seq(found) /\ Len(accepted) \in Nat
      /\ DOMAIN accepted = 1 .. Len(accepted)
  BY LenProperties DEF IInv, Types, TypeOK
<1>2. \A x \in found : x.start \in Int /\ x.end \in Int /\ x.start < x.end /\ x.prec \in Int
  BY SMTT(40), MatchFields DEF IInv, Types, TypeOK
<1>n. PICK L \in Nat : L = Len(accepted)
  BY <1>1
<1>a. \A i \in 1 .. L : \A j \in 1 .. L : i < j => accepted[i].end <= accepted[j].start
  BY <1>1, <1>n DEF IInv, SegmentsDisjoint
<1>b. \A i \in 1 .. L : \A q \in raw : accepted[i] # q /\ accepted[i].start <= q.start
  BY <1>1, <1>n DEF IInv, ResolveOK
<1>c. \A x \in found \ raw : \/ \E i \in 1 .. L : accepted[i] = x
                            \/ \E q \in found : q.prec > x.prec /\ Overlap(q, x)
  BY <1>1, <1>n DEF IInv, DroppedForHigher
<1>3. CASE ~ Overlaps(r)
  <2>1. /\ Keep(r) = Append(accepted, r) /\ Keep(r) \in Seq(found)
        /\ DOMAIN Keep(r) = 1 .. L + 1
        /\ \A i \in 1 .. L : Keep(r)[i] = accepted[i]
        /\ Keep(r)[L + 1] = r
    BY <1>1, <1>3, <1>n, AppendProperties, LenProperties DEF Keep
  <2>2. \A i \in 1 .. L : accepted[i].end <= r.start
    <3>1. SUFFICES ASSUME NEW i \in 1 .. L PROVE accepted[i].end <= r.start
      OBVIOUS
    <3>2. accepted # <<>>
      BY <1>n, <3>1, EmptySeq
    <3>3. Last(accepted) = accepted[L] /\ Last(accepted) \in found
      BY <1>1, <1>n, <3>2, LastOfSeq
    <3>4. Last(accepted).end <= r.start
      BY <1>1, <1>2, <1>3, <3>2, <3>3 DEF Overlaps
    <3>5. accepted[i] \in found
      BY <1>1, <1>n, ElementOfSeq
    <3>6. i = L \/ accepted[i].end <= accepted[L].start
      <4>1. i = L \/ (i < L /\ L \in 1 .. L)
        OBVIOUS
      <4>2. QED
        BY <1>a, <4>1
    <3>7. QED
      BY <1>1, <1>2, <3>3, <3>4, <3>5, <3>6
  <2>3. \A i \in DOMAIN Keep(r) : \A q \in raw \ {r} :
          Keep(r)[i] # q /\ Keep(r)[i].start <= q.start
    BY <1>b, <2>1
  <2>4. \A i \in DOMAIN Keep(r) : \A j \in DOMAIN Keep(r) :
          i < j => Keep(r)[i].end <= Keep(r)[j].start
    BY <1>a, <2>1, <2>2
  <2>5. \A x \in found \ (raw \ {r}) :
          \/ \E i \in DOMAIN Keep(r) : Keep(r)[i] = x
          \/ \E q \in found : q.prec > x.prec /\ Overlap(q, x)
    BY <1>c, <2>1
  <2>6. QED
    BY <2>1, <2>3, <2>4, <2>5
<1>4. CASE Overlaps(r)
  <2> DEFINE p == Last(accepted)
  <2>1. accepted # <<>>
    BY <1>4 DEF Overlaps
  <2>2. /\ p \in found /\ p # r /\ Overlap(r, p) /\ Overlap(p, r) /\ r.prec # p.prec
        /\ p = accepted[L] /\ L # 0
    BY <1>1, <1>4, <1>n, <2>1, Rivals, LastOfSeq DEF Overlap
  <2>3. CASE Beats(r, p)
    <3>1. r.prec > p.prec
      BY <2>2, <2>3 DEF Beats
    <3>a. Keep(r) = Append(Front(accepted), r)
      BY SMTT(40), <1>4, <2>3 DEF Keep
    <3>2. PICK f \in Seq(found) :
            /\ f = Front(accepted) /\ Len(f) = L - 1
            /\ \A i \in 1 .. L - 1 : f[i] = accepted[i]
      BY <1>1, <1>n, <2>1, LastOfSeq
    <3>b. /\ Append(f, r) \in Seq(found) /\ Len(Append(f, r)) = Len(f) + 1
          /\ \A i \in 1 .. Len(f) : Append(f, r)[i] = f[i]
          /\ Append(f, r)[Len(f) + 1] = r
      BY <1>1, AppendProperties
    <3>c. DOMAIN Append(f, r) = 1 .. Len(Append(f, r))
      BY <3>b, LenProperties
    <3>3. /\ Keep(r) \in Seq(found)
          /\ Len(Keep(r)) = L /\ DOMAIN Keep(r) = 1 .. L
          /\ \A i \in 1 .. L - 1 : Keep(r)[i] = accepted[i]
          /\ Keep(r)[L] = r
      BY <2>2, <3>2, <3>a, <3>b, <3>c
    <3>4. \A i \in 1 .. L - 1 : accepted[i].end <= r.start
      <4>1. SUFFICES ASSUME NEW i \in 1 .. L - 1 PROVE accepted[i].end <= r.start
        OBVIOUS
      <4>2. accepted[i].end <= p.start
        <5>1. i \in 1 .. L /\ L \in 1 .. L /\ i < L
          BY <2>2
        <5>2. QED
          BY <1>a, <2>2, <5>1
      <4>3. p.start <= r.start
        BY <1>b, <2>2
      <4>4. accepted[i] \in found
        BY <1>1, <1>n, <2>2, ElementOfSeq
      <4>5. QED
        BY <1>1, <1>2, <2>2, <4>2, <4>3, <4>4
    <3>5. \A i \in DOMAIN Keep(r) : \A q \in raw \ {r} :
            Keep(r)[i] # q /\ Keep(r)[i].start <= q.start
      BY <1>b, <2>2, <3>3
    <3>6. \A i \in DOMAIN Keep(r) : \A j \in DOMAIN Keep(r) :
            i < j => Keep(r)[i].end <= Keep(r)[j].start
      <4>1. SUFFICES ASSUME NEW i \in 1 .. L, NEW j \in 1 .. L, i < j
            PROVE  Keep(r)[i].end <= Keep(r)[j].start
        BY <3>3
      <4>2. i \in 1 .. L - 1 /\ Keep(r)[i] = accepted[i]
        BY <3>3, <4>1
      <4>3. CASE j = L
        BY <3>3, <3>4, <4>2, <4>3
      <4>4. CASE j # L
        BY <1>a, <3>3, <4>1, <4>2, <4>4
      <4>5. QED
        BY <4>3, <4>4
    <3>7. ASSUME NEW x \in found \ (raw \ {r})
          PROVE  \/ \E i \in DOMAIN Keep(r) : Keep(r)[i] = x
                 \/ \E q \in found : q.prec > x.prec /\ Overlap(q, x)
      <4>1. CASE x = r
        BY <2>2, <3>3, <4>1
      <4>2. CASE x = p
        BY <1>1, <2>2, <3>1, <4>2
      <4>3. CASE x # r /\ x # p
        <5>1. CASE \E q \in found : q.prec > x.prec /\ Overlap(q, x)
          BY <5>1
        <5>2. CASE \E i \in 1 .. L : accepted[i] = x
          BY <2>2, <3>3, <4>3, <5>2
        <5>3. QED
          BY <1>c, <4>3, <5>1, <5>2
      <4>4. QED
        BY <4>1, <4>2, <4>3
    <3>8. QED
      BY <3>3, <3>5, <3>6, <3>7
  <2>4. CASE ~ Beats(r, p)
    <3>1. p.prec > r.prec
      BY <1>1, <1>2, <2>2, <2>4 DEF Beats
    <3>2. Keep(r) = accepted
      BY <1>4, <2>4 DEF Keep
    <3>3. ASSUME NEW x \in found \ (raw \ {r})
          PROVE  \/ \E i \in DOMAIN Keep(r) : Keep(r)[i] = x
                 \/ \E q \in found : q.prec > x.prec /\ Overlap(q, x)
      <4>1. CASE x = r
        BY <2>2, <3>1, <4>1
      <4>2. CASE x # r
        BY <3>2, <4>2 DEF IInv, DroppedForHigher
      <4>3. QED
        BY <4>1, <4>2
    <3>4. QED
      BY <1>1, <3>2, <3>3 DEF IInv, ResolveOK, SegmentsDisjoint
  <2>5. QED
    BY <2>3, <2>4
<1>5. QED
  BY <1>3, <1>4

LEMMA ResolveStep ==
  ASSUME IInv, Resolve
  PROVE  IInv'
<1>1. PICK r \in raw : IsNext(r) /\ raw' = raw \ {r} /\ accepted' = Keep(r)
  BY DEF Resolve
<1>2. /\ pc = "resolve" /\ UNCHANGED <<pc, given, text, kind, pos, seg, cursor, out, found, rewrites>>
  BY DEF Resolve
<1>3. \A q \in raw : r.start <= q.start
  <2>1. \A q \in raw : q \in found /\ q.start \in Int
    BY MatchFields DEF IInv, Types, TypeOK
  <2>2. QED
    BY <1>1, <2>1 DEF IsNext
<1>4. /\ accepted' \in Seq(found)
      /\ ResolveOK' /\ SegmentsDisjoint' /\ DroppedForHigher'
  BY <1>1, <1>2, <1>3, KeepLast DEF ResolveOK, SegmentsDisjoint, DroppedForHigher
<1>5. seg \in 1 .. Len(accepted') + 1
  BY <1>2, <1>4, LenProperties DEF IInv, SearchOK
<1>6. Types'
  <2>1. \A i \in DOMAIN accepted' : accepted'[i] \in found
    BY <1>4, LenProperties, ElementOfSeq
  <2>2. QED
    BY <1>1, <1>2, <1>4, <1>5, <2>1 DEF IInv, Types, TypeOK, MatchType
<1>7. SearchOK'
  BY <1>1, <1>2 DEF IInv, SearchOK
<1>8. QED
  BY <1>4, <1>6, <1>7 DEF IInv

(***************************************************************************)
(* The emission, which leaves the segments as they are.                    *)
(***************************************************************************)
LEMMA SegmentsKept ==
  ASSUME IInv, UNCHANGED <<kind, pos, raw, accepted, found>>,
         pc' \in {"find", "resolve", "emit", "collapse", "done"},
         pc' \in {"find", "resolve"} => seg' = 1,
         pc' = "find" => pc = "arrived"
  PROVE  SearchOK' /\ ResolveOK' /\ SegmentsDisjoint' /\ DroppedForHigher'
<1>1. SearchOK'
  BY DEF IInv, SearchOK, Clear
<1>2. ResolveOK' /\ SegmentsDisjoint' /\ DroppedForHigher'
  BY DEF IInv, ResolveOK, SegmentsDisjoint, DroppedForHigher
<1>3. QED
  BY <1>1, <1>2

LEMMA EmitStep ==
  ASSUME IInv, Emit
  PROVE  IInv'
<1> DEFINE a == accepted[seg]
<1>1. seg \in DOMAIN accepted /\ a \in found /\ seg + 1 \in 1 .. Len(accepted) + 1
  BY LenProperties DEF Emit, IInv, Types, TypeOK
<1>2. /\ a.start \in 1 .. Len(text) /\ a.end \in a.start + 1 .. Len(text) + 1
      /\ Len(text) \in Nat /\ cursor \in Nat \ {0}
  BY <1>1, LenProperties DEF IInv, Types, TypeOK, MatchType
<1>3. Slice(cursor, a.start) \in Seq(Atom) /\ Slice(a.start, a.end) \in Seq(Atom)
  <2>1. a.start \in Nat \ {0} /\ a.start - 1 \in Int /\ a.end - 1 \in Int
    BY <1>2
  <2>2. a.start - 1 <= Len(text) /\ a.end - 1 <= Len(text)
    BY <1>2
  <2>3. text \in Seq(Atom)
    BY DEF IInv, Types
  <2>4. QED
    BY <1>2, <2>1, <2>2, <2>3, SliceType DEF Slice
<1>4. <<Sep>> \in Seq(Atom)
  BY ParserAssumption
<1>5. out \in Seq(Atom)
  BY DEF IInv, Types
<1>6. out' = out \o Slice(cursor, a.start) \o <<Sep>> \o Slice(a.start, a.end) \o <<Sep>>
  BY DEF Emit
<1>7. out' \in Seq(Atom)
  BY <1>3, <1>4, <1>5, <1>6, ConcatProperties
<1>8. cursor' \in 1 .. Len(text) + 1
  BY <1>2 DEF Emit, AfterSegment
<1>9. Types'
  BY <1>1, <1>7, <1>8 DEF Emit, IInv, Types, TypeOK, MatchType
<1>10. QED
  BY <1>9, SegmentsKept DEF Emit, IInv

LEMMA EmitRestStep ==
  ASSUME IInv, EmitRest
  PROVE  IInv'
<1>1. Slice(cursor, Len(text) + 1) \in Seq(Atom)
  <2>1. Len(text) \in Nat /\ cursor \in Nat \ {0}
    BY LenProperties DEF IInv, Types, TypeOK
  <2>2. QED
    BY <2>1, SliceType DEF Slice, IInv, Types
<1>2. out' \in Seq(Atom)
  BY <1>1, ConcatProperties DEF EmitRest, IInv, Types
<1>3. Types'
  BY <1>2 DEF EmitRest, IInv, Types, TypeOK, MatchType, parseVars
<1>4. QED
  BY <1>3, SegmentsKept DEF EmitRest, IInv, parseVars

LEMMA CollapseStep ==
  ASSUME IInv, Collapse
  PROVE  IInv'
<1>1. pc' \in {"collapse", "done"} /\ UNCHANGED <<given, text, parseVars, rewrites>>
  BY DEF Collapse
<1>2. out' \in Seq(Atom)
  <2>1. CASE Doubled(out) = {}
    BY <2>1 DEF Collapse, IInv, Types
  <2>2. CASE Doubled(out) # {}
    <3>1. PICK p \in 1 .. Len(out) - 1 :
            out' = SubSeq(out, 1, p) \o SubSeq(out, p + 2, Len(out))
      BY <2>2 DEF Collapse, Doubled
    <3>2. Len(out) \in Nat /\ out \in Seq(Atom)
      BY LenProperties DEF IInv, Types
    <3>3. SubSeq(out, 1, p) \in Seq(Atom) /\ SubSeq(out, p + 2, Len(out)) \in Seq(Atom)
      BY <3>2, SliceType
    <3>4. QED
      BY <3>1, <3>3, ConcatProperties
  <2>3. QED
    BY <2>1, <2>2
<1>3. Types'
  BY <1>1, <1>2 DEF IInv, Types, TypeOK, MatchType, parseVars
<1>4. QED
  BY <1>1, <1>3, SegmentsKept DEF IInv, parseVars

(***************************************************************************)
(* A payload that arrives, for the first time or again.                    *)
(***************************************************************************)
LEMMA ReplayStep ==
  ASSUME IInv, Replay
  PROVE  IInv'
<1>1. /\ pc' = "arrived" /\ kind' = 1 /\ pos' = 1 /\ raw' = {} /\ found' = {}
      /\ accepted' = <<>> /\ seg' = 1 /\ cursor' = 1 /\ given' = out /\ text' = out
      /\ out' = <<>> /\ rewrites' = rewrites
  BY DEF Replay, Fresh
<1>2. Len(text') \in Nat /\ text' \in Seq(Atom)
  BY <1>1, LenProperties DEF IInv, Types
<1>3. Types'
  BY <1>1, <1>2, EmptySeq DEF IInv, Types, TypeOK
<1>4. SearchOK' /\ ResolveOK' /\ SegmentsDisjoint' /\ DroppedForHigher'
  BY <1>1, EmptySeq DEF SearchOK, ResolveOK, SegmentsDisjoint, DroppedForHigher
<1>5. QED
  BY <1>3, <1>4 DEF IInv

LEMMA IInvStep ==
  ASSUME IInv, [Next]_vars
  PROVE  IInv'
<1>1. CASE LeaveUnchanged
  <2>1. Types'
    BY <1>1 DEF LeaveUnchanged, IInv, Types, TypeOK, MatchType, parseVars
  <2>2. QED
    BY <1>1, <2>1, SegmentsKept DEF LeaveUnchanged, IInv, parseVars
<1>2. CASE Rewrite
  <2>1. Types'
    <3>1. text' \in Seq(Atom) /\ Len(text') = Len(text) /\ found' = {} /\ raw' = {}
      BY <1>2, NormalType DEF Rewrite, IInv, Types, TypeOK, SearchOK, parseVars
    <3> QED BY <1>2, <3>1, ParserAssumption DEF Rewrite, IInv, Types, TypeOK, parseVars
  <2>2. QED
    BY <1>2, <2>1, SegmentsKept DEF Rewrite, IInv, SearchOK, parseVars
<1>3. CASE Find
  BY <1>3, FindStep
<1>4. CASE NextKind
  BY <1>4, NextKindStep
<1>5. CASE Searched
  <2>1. Types'
    BY <1>5 DEF Searched, IInv, Types, TypeOK, MatchType, parseVars
  <2>2. QED
    BY <1>5, <2>1, SegmentsKept DEF Searched, IInv, SearchOK, parseVars
<1>6. CASE Resolve
  BY <1>6, ResolveStep
<1>7. CASE Resolved
  <2>1. Types'
    BY <1>7 DEF Resolved, IInv, Types, TypeOK, MatchType, parseVars
  <2>2. QED
    BY <1>7, <2>1, SegmentsKept DEF Resolved, IInv, parseVars
<1>8. CASE Emit
  BY <1>8, EmitStep
<1>9. CASE EmitRest
  BY <1>9, EmitRestStep
<1>10. CASE Collapse
  BY <1>10, CollapseStep
<1>11. CASE Replay
  BY <1>11, ReplayStep
<1>12. CASE UNCHANGED vars
  BY <1>12 DEF vars, parseVars, IInv, Types, TypeOK, MatchType, SearchOK, Clear, ResolveOK,
               SegmentsDisjoint, DroppedForHigher
<1>13. QED
  BY <1>1, <1>2, <1>3, <1>4, <1>5, <1>6, <1>7, <1>8, <1>9, <1>10, <1>11, <1>12
     DEF Next, Parse

LEMMA Invariance == Spec => []IInv
BY IInvInit, IInvStep, PTL DEF Spec
-----------------------------------------------------------------------------
(***************************************************************************)
(* The rewriting keeps its types: every match lies within the payload, and *)
(* the payload stays a sequence of atoms, however often it is rewritten.   *)
(***************************************************************************)
THEOREM TypeCorrect == Spec => []TypeOK
<1>1. IInv => TypeOK
  BY DEF IInv, Types
<1>2. QED
  BY <1>1, Invariance, PTL

(***************************************************************************)
(* find_segments returns segments in document order without overlaps.      *)
(***************************************************************************)
THEOREM NoOverlaps == Spec => []SegmentsDisjoint
<1>1. IInv => SegmentsDisjoint
  BY DEF IInv
<1>2. QED
  BY <1>1, Invariance, PTL

(***************************************************************************)
(* Overlaps are resolved by precedence: a dropped match overlaps a higher. *)
(***************************************************************************)
THEOREM ResolvedByPrecedence == Spec => []DroppedForHigher
<1>1. IInv => DroppedForHigher
  BY DEF IInv
<1>2. QED
  BY <1>1, Invariance, PTL

-----------------------------------------------------------------------------
(***************************************************************************)
(* Induction over the natural numbers, for a set of them: without a least  *)
(* element outside, nothing is outside.                                    *)
(***************************************************************************)
LessThan == {p \in Nat \X Nat : p[1] < p[2]}

LEMMA Induct ==
  ASSUME NEW T \in SUBSET Nat, 0 \in T, \A k \in T : k + 1 \in T
  PROVE  T = Nat
<1> SUFFICES ASSUME Nat \ T # {} PROVE FALSE
  OBVIOUS
<1>1. IsWellFoundedOn(LessThan, Nat)
  BY NatLessThanWellFounded, Zenon DEF LessThan, OpToRel
<1>2. PICK n \in Nat \ T : \A m \in Nat \ T : ~(<<m, n>> \in LessThan)
  BY <1>1, WFMin
<1>3. n - 1 \in Nat /\ n - 1 < n
  BY <1>2
<1>4. n - 1 \in T
  BY <1>2, <1>3 DEF LessThan
<1> QED BY <1>2, <1>3, <1>4

(***************************************************************************)
(* Any set of numbers has a least one.                                     *)
(***************************************************************************)
LEMMA LeastOf ==
  ASSUME NEW T \in SUBSET Nat, T # {} PROVE \E x \in T : \A y \in T : x <= y
<1>1. IsWellFoundedOn(LessThan, Nat)
  BY NatLessThanWellFounded, Zenon DEF LessThan, OpToRel
<1>2. PICK x \in T : \A y \in T : ~(<<y, x>> \in LessThan)
  BY <1>1, WFMin
<1>3. ASSUME NEW y \in T PROVE x <= y
  <2>1. x \in Nat /\ y \in Nat /\ ~(y < x)
    BY <1>2 DEF LessThan
  <2> QED BY <2>1
<1> QED BY <1>3

-----------------------------------------------------------------------------
(***************************************************************************)
(* How many atoms other than separators come before a position.            *)
(***************************************************************************)
LEMMA BeforeFirst == ASSUME NEW t PROVE Before(t, 1) = 0
<1>1. {q \in 1 .. 1 - 1 : t[q] # Sep} = {}
  OBVIOUS
<1> QED BY <1>1, FS_EmptySet DEF Before

LEMMA BeforeNext ==
  ASSUME NEW t, NEW p \in Nat \ {0}
  PROVE  /\ Before(t, p) \in Nat
         /\ Before(t, p + 1) = IF t[p] = Sep THEN Before(t, p) ELSE Before(t, p) + 1
<1> DEFINE C == {q \in 1 .. p - 1 : t[q] # Sep}
           D == {q \in 1 .. p + 1 - 1 : t[q] # Sep}
<1>1. IsFiniteSet(C) /\ Cardinality(C) \in Nat
  <2>1. C \in SUBSET (1 .. p - 1) /\ IsFiniteSet(1 .. p - 1)
    BY FS_Interval
  <2> QED BY <2>1, FS_Subset, FS_CardinalityType
<1>2. p \notin C /\ D = IF t[p] = Sep THEN C ELSE C \cup {p}
  OBVIOUS
<1> HIDE DEF C, D
<1>3. Cardinality(D) = IF t[p] = Sep THEN Cardinality(C) ELSE Cardinality(C) + 1
  BY <1>1, <1>2, FS_AddElement
<1> QED BY <1>1, <1>3 DEF Before, C, D

LEMMA BeforeSame ==
  ASSUME NEW t, NEW u, NEW p \in Nat \ {0}, \A q \in 1 .. p - 1 : t[q] = u[q]
  PROVE  Before(t, p) = Before(u, p)
<1>1. {q \in 1 .. p - 1 : t[q] # Sep} = {q \in 1 .. p - 1 : u[q] # Sep}
  OBVIOUS
<1> QED BY <1>1 DEF Before

(***************************************************************************)
(* Where two texts agree from two positions on that have the same count,   *)
(* the counts go on alike.                                                 *)
(***************************************************************************)
Aligned(u, a, t, s, n) ==
  Before(u, a + 1) = Before(t, s) /\ \A i \in 1 .. n : u[a + i] = t[s + i - 1]

LEMMA BeforeAlong ==
  ASSUME NEW u, NEW t, NEW a \in Nat, NEW s \in Nat \ {0}, NEW n \in Nat,
         Aligned(u, a, t, s, n), NEW m \in 0 .. n
  PROVE  Before(u, a + m + 1) = Before(t, s + m)
<1> DEFINE T == {k \in Nat : k <= n => Before(u, a + k + 1) = Before(t, s + k)}
<1>1. T \in SUBSET Nat /\ 0 \in T
  BY DEF Aligned
<1>2. ASSUME NEW k \in T PROVE k + 1 \in T
  <2>1. CASE k + 1 <= n
    <3>1. Before(u, a + k + 1) = Before(t, s + k)
      BY <2>1
    <3>2. /\ a + k + 1 \in Nat \ {0} /\ s + k \in Nat \ {0}
          /\ (a + k + 1) + 1 = a + (k + 1) + 1 /\ (s + k) + 1 = s + (k + 1)
      OBVIOUS
    <3>3. u[a + k + 1] = t[s + k]
      <4>1. k + 1 \in 1 .. n /\ a + (k + 1) = a + k + 1 /\ s + (k + 1) - 1 = s + k
        BY <2>1
      <4> QED BY <4>1 DEF Aligned
    <3>4. Before(u, (a + k + 1) + 1) = Before(t, (s + k) + 1)
      BY <3>1, <3>2, <3>3, BeforeNext
    <3> QED BY <3>2, <3>4
  <2> QED BY <2>1
<1>3. T = Nat
  <2> HIDE DEF T
  <2> QED BY <1>1, <1>2, Induct
<1>4. m \in Nat /\ m <= n
  OBVIOUS
<1>5. m \in T
  <2> HIDE DEF T
  <2> QED BY <1>3, <1>4
<1> QED BY <1>4, <1>5

(***************************************************************************)
(* The layout of part of a text, and what appending one adds to a layout.  *)
(***************************************************************************)
Piece(t, s, e) == SubSeq(t, s, e - 1)
Part(t, s, e) == {<<Before(t, p), t[p]>> : p \in s .. e - 1}
Width(t) == Before(t, Len(t) + 1)

LEMMA AppendSlice ==
  ASSUME NEW u \in Seq(Atom), NEW t \in Seq(Atom), NEW s \in 1 .. Len(t) + 1,
         NEW e \in s .. Len(t) + 1, Width(u) = Before(t, s)
  PROVE  LET v == u \o Piece(t, s, e) IN
           /\ v \in Seq(Atom) /\ Layout(v) = Layout(u) \cup Part(t, s, e)
           /\ Width(v) = Before(t, e)
<1> DEFINE w == Piece(t, s, e)
           v == u \o w
<1>0. Len(t) \in Nat /\ Len(u) \in Nat /\ s \in Nat \ {0} /\ e \in Nat \ {0} /\ s <= e
  BY LenProperties
<1>1. /\ w \in Seq(Atom) /\ Len(w) = e - s
      /\ \A i \in 1 .. e - s : w[i] = t[s + i - 1]
  <2>1. \A i \in s .. e - 1 : t[i] \in Atom
    BY <1>0, ElementOfSeq
  <2> QED BY <1>0, <2>1, SubSeqProperties DEF Piece
<1> HIDE DEF w
<1>2. /\ v \in Seq(Atom) /\ Len(v) = Len(u) + (e - s)
      /\ \A i \in 1 .. Len(u) + (e - s) : v[i] = IF i <= Len(u) THEN u[i] ELSE w[i - Len(u)]
  BY ZenonT(60), <1>0, <1>1, ConcatProperties
<1>d. DOMAIN v = 1 .. Len(u) + (e - s) /\ DOMAIN u = 1 .. Len(u)
  BY <1>2, LenProperties
<1> HIDE DEF v
<1>3. PICK a \in Nat : a = Len(u)
  BY <1>0
<1>4. PICK n \in Nat : n = e - s
  BY <1>0
<1>5. \A i \in 1 .. a : v[i] = u[i]
  BY SMTT(40), <1>2, <1>3, <1>4
<1>6. \A i \in 1 .. n : v[a + i] = t[s + i - 1]
  <2>1. SUFFICES ASSUME NEW k \in 1 .. n PROVE v[a + k] = t[s + k - 1]
    OBVIOUS
  <2>2. a + k \in 1 .. a + n /\ ~(a + k <= a) /\ (a + k) - a = k
    OBVIOUS
  <2> QED BY <1>1, <1>2, <1>3, <1>4, <2>2
<1>7. \A i \in 1 .. a + 1 : Before(v, i) = Before(u, i)
  BY <1>5, BeforeSame
<1>8. \A k \in 0 .. n : Before(v, a + k + 1) = Before(t, s + k)
  <2>1. Before(v, a + 1) = Before(t, s)
    BY <1>3, <1>7 DEF Width
  <2>2. s \in Nat \ {0}
    BY <1>0
  <2>3. Aligned(v, a, t, s, n)
    BY <1>6, <2>1 DEF Aligned
  <2>4. ASSUME NEW k \in 0 .. n PROVE Before(v, a + k + 1) = Before(t, s + k)
    BY <2>2, <2>3, BeforeAlong
  <2> QED BY <2>4
<1>9. Width(v) = Before(t, e)
  <2>1. n \in 0 .. n /\ a + n + 1 = Len(v) + 1 /\ s + n = e
    BY <1>0, <1>2, <1>3, <1>4
  <2> QED BY <1>8, <2>1 DEF Width
<1>10. Layout(v) = Layout(u) \cup Part(t, s, e)
  <2>1. ASSUME NEW i \in 1 .. a + n PROVE <<Before(v, i), v[i]>> \in Layout(u) \cup Part(t, s, e)
    <3>1. CASE i <= a
      BY <1>3, <1>5, <1>7, <1>d, <3>1 DEF Layout
    <3>2. CASE i > a
      <4>1. i - a \in 1 .. n /\ (i - a) - 1 \in 0 .. n /\ a + (i - a) = i /\ a + ((i - a) - 1) + 1 = i
            /\ s + ((i - a) - 1) = s + (i - a) - 1
        BY <3>2
      <4>2. v[i] = t[s + (i - a) - 1] /\ Before(v, i) = Before(t, s + (i - a) - 1)
        BY <1>6, <1>8, <4>1
      <4>3. s + (i - a) - 1 \in s .. e - 1
        BY <1>0, <1>4, <4>1
      <4> QED BY <4>2, <4>3 DEF Part
    <3> QED BY <3>1, <3>2
  <2>2. ASSUME NEW i \in 1 .. a PROVE <<Before(u, i), u[i]>> \in Layout(v)
    <3>1. i \in DOMAIN v /\ v[i] = u[i] /\ Before(v, i) = Before(u, i)
      BY <1>0, <1>3, <1>4, <1>5, <1>7, <1>d
    <3> QED BY <3>1 DEF Layout
  <2>3. ASSUME NEW p \in s .. e - 1 PROVE <<Before(t, p), t[p]>> \in Layout(v)
    <3>1. p - s + 1 \in 1 .. n /\ p - s \in 0 .. n /\ s + (p - s + 1) - 1 = p /\ s + (p - s) = p
      BY <1>0, <1>4
    <3>2. a + (p - s) + 1 \in DOMAIN v /\ a + (p - s + 1) = a + (p - s) + 1
      BY <1>0, <1>3, <1>4, <1>d
    <3>3. v[a + (p - s) + 1] = t[p] /\ Before(v, a + (p - s) + 1) = Before(t, p)
      BY <1>6, <1>8, <3>1, <3>2
    <3> QED BY <3>2, <3>3 DEF Layout
  <2> QED BY <1>3, <1>4, <1>d, <2>1, <2>2, <2>3 DEF Layout, Part
<1> QED BY <1>2, <1>9, <1>10 DEF v, w

LEMMA AppendSep ==
  ASSUME NEW u \in Seq(Atom)
  PROVE  LET v == u \o <<Sep>> IN
           /\ v \in Seq(Atom) /\ Layout(v) = Layout(u) \cup {<<Width(u), Sep>>}
           /\ Width(v) = Width(u)
<1> DEFINE v == u \o <<Sep>>
<1>1. <<Sep>> \in Seq(Atom) /\ Len(<<Sep>>) = 1 /\ <<Sep>>[1] = Sep
  BY ParserAssumption
<1>2. PICK a \in Nat : a = Len(u)
  BY LenProperties
<1>3. /\ v \in Seq(Atom) /\ Len(v) = a + 1
      /\ \A i \in 1 .. a + 1 : v[i] = IF i <= a THEN u[i] ELSE <<Sep>>[i - a]
  BY <1>1, <1>2, ConcatProperties
<1>4. DOMAIN v = 1 .. a + 1 /\ DOMAIN u = 1 .. a
  BY <1>2, <1>3, LenProperties
<1>5. v[a + 1] = Sep /\ \A i \in 1 .. a : v[i] = u[i]
  <2>1. a + 1 \in 1 .. a + 1 /\ ~(a + 1 <= a) /\ (a + 1) - a = 1
    OBVIOUS
  <2> QED BY <1>1, <1>3, <2>1
<1> HIDE DEF v
<1>6. \A i \in 1 .. a + 1 : Before(v, i) = Before(u, i)
  BY <1>5, BeforeSame
<1>7. Width(v) = Width(u)
  <2>1. Before(v, (a + 1) + 1) = Before(v, a + 1)
    BY <1>5, BeforeNext
  <2> QED BY <1>2, <1>3, <1>6, <2>1 DEF Width
<1>8. Layout(v) = Layout(u) \cup {<<Width(u), Sep>>}
  <2>1. <<Before(v, a + 1), v[a + 1]>> = <<Width(u), Sep>>
    BY <1>2, <1>5, <1>6 DEF Width
  <2>2. \A i \in 1 .. a : <<Before(v, i), v[i]>> = <<Before(u, i), u[i]>>
    BY <1>5, <1>6
  <2>3. 1 .. a + 1 = (1 .. a) \cup {a + 1}
    OBVIOUS
  <2> QED BY <1>4, <2>1, <2>2, <2>3 DEF Layout
<1> QED BY <1>3, <1>7, <1>8 DEF v

(***************************************************************************)
(* Of two separators in a row one adds nothing to the layout.              *)
(***************************************************************************)
LEMMA DropOne ==
  ASSUME NEW t \in Seq(Atom), NEW p \in Doubled(t)
  PROVE  LET v == SubSeq(t, 1, p) \o SubSeq(t, p + 2, Len(t)) IN
           v \in Seq(Atom) /\ Layout(v) = Layout(t)
<1> DEFINE u == SubSeq(t, 1, p)
           v == u \o SubSeq(t, p + 2, Len(t))
<1>1. /\ Len(t) \in Nat /\ DOMAIN t = 1 .. Len(t)
      /\ p \in 1 .. Len(t) - 1 /\ t[p] = Sep /\ t[p + 1] = Sep
  BY LenProperties DEF Doubled
<1>2. <<>> \in Seq(Atom) /\ Width(<<>>) = Before(t, 1) /\ Layout(<<>>) = {}
  BY BeforeFirst DEF Width, Layout
<1>3. u \in Seq(Atom) /\ Layout(u) = Part(t, 1, p + 1) /\ Width(u) = Before(t, p + 1)
  <2>1. 1 \in 1 .. Len(t) + 1 /\ p + 1 \in 1 .. Len(t) + 1 /\ (p + 1) - 1 = p
    BY <1>1
  <2>2. u \in Seq(Atom) /\ <<>> \o u = u
    <3>1. \A i \in 1 .. p : t[i] \in Atom
      BY <1>1, ElementOfSeq
    <3>2. u \in Seq(Atom)
      BY <1>1, <3>1, SubSeqProperties
    <3> QED BY <3>2, ConcatEmptySeq
  <2>3. Piece(t, 1, p + 1) = u
    BY <2>1 DEF Piece
  <2>4. PICK z \in Seq(Atom) : z = <<>>
    BY <1>2
  <2>5. Width(z) = Before(t, 1) /\ Layout(z) = {} /\ z \o Piece(t, 1, p + 1) = u
    BY <1>2, <2>2, <2>3, <2>4
  <2> HIDE DEF u
  <2>6. Width(z) = Before(t, 1)
    BY <2>5
  <2>7. PICK e \in 1 .. Len(t) + 1 : e = p + 1
    BY <2>1
  <2>8. /\ Layout(z \o Piece(t, 1, e)) = Layout(z) \cup Part(t, 1, e)
        /\ Width(z \o Piece(t, 1, e)) = Before(t, e)
    BY <2>1, <2>6, <2>7, AppendSlice
  <2> QED BY <2>2, <2>5, <2>7, <2>8
<1> HIDE DEF u
<1>4. /\ Before(t, p + 1) = Before(t, p) /\ Before(t, p + 2) = Before(t, p + 1)
  <2>1. Before(t, (p + 1) + 1) = Before(t, p + 1)
    BY <1>1, BeforeNext
  <2>2. Before(t, p + 1) = Before(t, p)
    <3>1. p \in Nat \ {0} /\ t[p] = Sep
      BY <1>1
    <3> QED BY <3>1, BeforeNext
  <2>3. (p + 1) + 1 = p + 2
    BY <1>1
  <2> QED BY <2>1, <2>2, <2>3
<1>5. v \in Seq(Atom) /\ Layout(v) = Part(t, 1, p + 1) \cup Part(t, p + 2, Len(t) + 1)
  <2>1. p + 2 \in 1 .. Len(t) + 1 /\ Len(t) + 1 \in p + 2 .. Len(t) + 1 /\ (Len(t) + 1) - 1 = Len(t)
    BY <1>1
  <2>2. v = u \o Piece(t, p + 2, Len(t) + 1)
    BY <2>1 DEF Piece
  <2>a. PICK s \in 1 .. Len(t) + 1 : s = p + 2
    BY <2>1
  <2>b. PICK e \in s .. Len(t) + 1 : e = Len(t) + 1
    BY <2>1, <2>a
  <2>3. s = p + 2 /\ e = Len(t) + 1
    BY <2>a, <2>b
  <2>4. Width(u) = Before(t, s)
    BY <1>3, <1>4, <2>3
  <2>5. /\ u \o Piece(t, s, e) \in Seq(Atom)
        /\ Layout(u \o Piece(t, s, e)) = Layout(u) \cup Part(t, s, e)
    BY <1>3, <2>4, AppendSlice
  <2> QED BY <1>3, <2>2, <2>3, <2>5
<1> HIDE DEF v
<1>6. Part(t, 1, p + 1) \cup Part(t, p + 2, Len(t) + 1) = Layout(t)
  <2>1. <<Before(t, p + 1), t[p + 1]>> = <<Before(t, p), t[p]>>
    BY <1>1, <1>4
  <2>2. p \in 1 .. (p + 1) - 1
    BY <1>1
  <2>3. DOMAIN t = (1 .. (p + 1) - 1) \cup {p + 1} \cup (p + 2 .. (Len(t) + 1) - 1)
    BY <1>1
  <2> QED BY <2>1, <2>2, <2>3 DEF Part, Layout
<1> QED BY <1>5, <1>6 DEF u, v

InOrder(s, m, e) == s \in Int /\ m \in Int /\ e \in Int /\ s <= m /\ m <= e

Joined(t, s, m, e) == Part(t, s, m) \cup Part(t, m, e) = Part(t, s, e)

LEMMA PartJoin ==
  ASSUME NEW t, NEW s, NEW m, NEW e, InOrder(s, m, e)
  PROVE  Joined(t, s, m, e)
<1>1. (s .. m - 1) \cup (m .. e - 1) = s .. e - 1
  BY DEF InOrder
<1> QED BY <1>1 DEF Part, Joined

-----------------------------------------------------------------------------
(***************************************************************************)
(* What the emission has put out: the text up to the cursor, and a         *)
(* separator at the ends of the segments behind it.                        *)
(***************************************************************************)
Ends(n) ==
  UNION {{Before(text, accepted[i].start), Before(text, accepted[i].end)} : i \in 1 .. n}
Marks(B) == {<<b, Sep>> : b \in B}
LaidOut == Layout(out) = Layout(text) \cup Marks(Boundaries)

LInv ==
  /\ pc \in {"arrived", "find", "resolve"} => out = <<>> /\ cursor = 1
  /\ pc = "emit" =>
       /\ cursor = IF seg = 1 THEN 1 ELSE accepted[seg - 1].end
       /\ Width(out) = Before(text, cursor)
       /\ Layout(out) = Part(text, 1, cursor) \cup Marks(Ends(seg - 1))
  /\ pc = "collapse" => LaidOut
  /\ pc = "done" => LaidOut /\ (accepted # <<>> => Doubled(out) = {})

LEMMA EmptyLayout == ASSUME NEW t PROVE Width(<<>>) = Before(t, 1) /\ Layout(<<>>) = {}
  BY BeforeFirst DEF Width, Layout

LEMMA NoBoundaries == accepted = <<>> => Boundaries = {}
  BY DEF Boundaries

LEMMA MarksJoin == ASSUME NEW B, NEW D PROVE Marks(B \cup D) = Marks(B) \cup Marks(D)
  BY DEF Marks

LEMMA LaidOutInit == Init => LInv
  BY DEF Init, LInv

LEMMA EmitLaysOut == ASSUME IInv, LInv, Emit PROVE LInv'
<1> DEFINE a == accepted[seg]
<1>1. seg \in DOMAIN accepted /\ a \in found /\ seg \in Nat \ {0} /\ DOMAIN accepted = 1 .. Len(accepted)
  BY LenProperties DEF Emit, IInv, Types, TypeOK
<1>2. /\ a.start \in 1 .. Len(text) /\ a.end \in a.start + 1 .. Len(text) + 1
      /\ Len(text) \in Nat /\ cursor \in 1 .. Len(text) + 1
  BY <1>1, LenProperties DEF IInv, Types, TypeOK, MatchType
<1>3. cursor <= a.start
  <2>1. CASE seg = 1
    BY <1>2, <2>1 DEF Emit, LInv
  <2>2. CASE seg # 1
    <3>1. seg - 1 \in DOMAIN accepted /\ seg - 1 < seg
      BY <1>1, <2>2
    <3> QED BY <1>1, <2>2, <3>1 DEF Emit, LInv, IInv, SegmentsDisjoint
  <2> QED BY <2>1, <2>2
<1>4. /\ out \in Seq(Atom) /\ text \in Seq(Atom) /\ Width(out) = Before(text, cursor)
      /\ Layout(out) = Part(text, 1, cursor) \cup Marks(Ends(seg - 1))
  BY DEF Emit, IInv, Types, LInv
<1>5. PICK s \in 1 .. Len(text) + 1 : s = a.start
  BY <1>2
<1>6. PICK e \in s .. Len(text) + 1 : e = a.end
  BY <1>2, <1>5
<1>7. s \in cursor .. Len(text) + 1 /\ cursor \in Int /\ s \in Int /\ e \in Int /\ s <= e /\ 1 <= cursor
  BY <1>2, <1>3, <1>5, <1>6
<1> DEFINE o1 == out \o Piece(text, cursor, s)
           o2 == o1 \o <<Sep>>
           o3 == o2 \o Piece(text, s, e)
           o4 == o3 \o <<Sep>>
<1>8. /\ o1 \in Seq(Atom) /\ Width(o1) = Before(text, s)
      /\ Layout(o1) = Layout(out) \cup Part(text, cursor, s)
  BY <1>2, <1>4, <1>7, AppendSlice
<1> HIDE DEF o1
<1>9. /\ o2 \in Seq(Atom) /\ Width(o2) = Before(text, s)
      /\ Layout(o2) = Layout(o1) \cup {<<Before(text, s), Sep>>}
  BY <1>8, AppendSep
<1> HIDE DEF o2
<1>10. /\ o3 \in Seq(Atom) /\ Width(o3) = Before(text, e)
       /\ Layout(o3) = Layout(o2) \cup Part(text, s, e)
  BY <1>4, <1>9, AppendSlice
<1> HIDE DEF o3
<1>11. /\ Width(o4) = Before(text, e)
       /\ Layout(o4) = Layout(o3) \cup {<<Before(text, e), Sep>>}
  BY SMTT(40), <1>10, AppendSep
<1>12. out' = o4
  BY <1>5, <1>6 DEF Emit, Slice, Piece, o1, o2, o3
<1> HIDE DEF o4
<1>13. Ends(seg) = Ends(seg - 1) \cup {Before(text, s), Before(text, e)}
  <2>1. 1 .. seg = (1 .. seg - 1) \cup {seg}
    BY <1>1
  <2> QED BY <1>5, <1>6, <2>1 DEF Ends
<1>14. Layout(o4) = Part(text, 1, e) \cup Marks(Ends(seg))
  <2>1. Part(text, 1, cursor) \cup Part(text, cursor, s) = Part(text, 1, s)
    <3>1. InOrder(1, cursor, s)
      BY <1>7 DEF InOrder
    <3>2. Joined(text, 1, cursor, s)
      BY <3>1, PartJoin
    <3> QED BY <3>2 DEF Joined
  <2>2. Part(text, 1, s) \cup Part(text, s, e) = Part(text, 1, e)
    <3>1. InOrder(1, s, e)
      BY <1>7 DEF InOrder
    <3>2. Joined(text, 1, s, e)
      BY <3>1, PartJoin
    <3> QED BY <3>2 DEF Joined
  <2>3. Marks(Ends(seg)) = Marks(Ends(seg - 1)) \cup {<<Before(text, s), Sep>>, <<Before(text, e), Sep>>}
    BY <1>13 DEF Marks
  <2> QED BY <1>4, <1>8, <1>9, <1>10, <1>11, <2>1, <2>2, <2>3
<1>15. /\ pc' = "emit" /\ seg' = seg + 1 /\ cursor' = e /\ text' = text /\ accepted' = accepted
  BY <1>6 DEF Emit, AfterSegment
<1>16. seg' # 1 /\ seg' - 1 = seg
  BY <1>1, <1>15
<1>17. /\ Width(out') = Before(text', cursor')
       /\ Layout(out') = Part(text', 1, cursor') \cup Marks(Ends(seg - 1))'
  <2>1. Ends(seg - 1)' = Ends(seg)
    BY <1>15, <1>16 DEF Ends
  <2>2. Marks(Ends(seg - 1))' = Marks(Ends(seg))
    BY <2>1 DEF Marks
  <2> QED BY <1>11, <1>12, <1>14, <1>15, <2>2
<1>18. cursor' = accepted'[seg' - 1].end
  BY <1>6, <1>15, <1>16
<1> QED BY <1>15, <1>16, <1>17, <1>18 DEF LInv

LEMMA EmitRestLaysOut == ASSUME IInv, LInv, EmitRest PROVE LInv'
<1>1. /\ out \in Seq(Atom) /\ text \in Seq(Atom) /\ Width(out) = Before(text, cursor)
      /\ Layout(out) = Part(text, 1, cursor) \cup Marks(Ends(seg - 1))
  BY DEF EmitRest, IInv, Types, LInv
<1>2. /\ Len(text) \in Nat /\ cursor \in 1 .. Len(text) + 1 /\ DOMAIN text = 1 .. Len(text)
      /\ DOMAIN accepted = 1 .. Len(accepted) /\ seg - 1 = Len(accepted)
  BY LenProperties DEF EmitRest, IInv, Types, TypeOK
<1>3. PICK e \in cursor .. Len(text) + 1 : e = Len(text) + 1
  BY <1>2
<1>4. Layout(out \o Piece(text, cursor, e)) = Layout(out) \cup Part(text, cursor, e)
  BY <1>1, <1>2, <1>3, AppendSlice
<1>5. out' = out \o Piece(text, cursor, e)
  BY <1>3 DEF EmitRest, Slice, Piece
<1>6. Part(text, 1, cursor) \cup Part(text, cursor, e) = Layout(text)
  <2>1. Part(text, 1, cursor) \cup Part(text, cursor, e) = Part(text, 1, e)
    <3>1. InOrder(1, cursor, e)
      BY <1>2, <1>3 DEF InOrder
    <3>2. Joined(text, 1, cursor, e)
      BY <3>1, PartJoin
    <3> QED BY <3>2 DEF Joined
  <2>2. 1 .. e - 1 = DOMAIN text
    BY <1>2, <1>3
  <2> QED BY <2>1, <2>2 DEF Part, Layout
<1>7. Ends(seg - 1) = Boundaries
  BY <1>2 DEF Ends, Boundaries
<1>8. Layout(out') = Layout(text) \cup Marks(Boundaries)
  BY <1>1, <1>4, <1>5, <1>6, <1>7
<1>9. pc' = "collapse" /\ UNCHANGED <<text, accepted>>
  BY DEF EmitRest, parseVars
<1> QED BY <1>8, <1>9 DEF LInv, LaidOut, Marks, Boundaries

LEMMA CollapseLaysOut == ASSUME IInv, LInv, Collapse PROVE LInv'
<1>1. LaidOut /\ UNCHANGED <<text, accepted>> /\ out \in Seq(Atom)
  BY DEF Collapse, LInv, parseVars, IInv, Types
<1>2. Boundaries' = Boundaries
  BY <1>1 DEF Boundaries
<1>3. CASE Doubled(out) = {}
  BY <1>1, <1>2, <1>3 DEF Collapse, LInv, LaidOut, Marks, Doubled
<1>4. CASE Doubled(out) # {}
  <2>1. PICK p \in Doubled(out) : out' = SubSeq(out, 1, p) \o SubSeq(out, p + 2, Len(out))
    BY <1>4 DEF Collapse
  <2>2. Layout(out') = Layout(out) /\ pc' = "collapse"
    BY <1>1, <1>4, <2>1, DropOne DEF Collapse
  <2> QED BY <1>1, <1>2, <2>2 DEF LInv, LaidOut, Marks
<1> QED BY <1>3, <1>4

LEMMA LaidOutStep == ASSUME IInv, LInv, [Next]_vars PROVE LInv'
<1> USE DEF LInv
<1>1. CASE LeaveUnchanged
  <2>1. accepted = <<>> /\ accepted' = <<>> /\ text' = text /\ out' = text /\ pc' = "done"
    BY <1>1 DEF LeaveUnchanged, IInv, SearchOK, parseVars
  <2>2. Boundaries' = {}
    BY <2>1 DEF Boundaries
  <2> QED BY <2>1, <2>2 DEF LaidOut, Marks
<1>2. CASE Rewrite
  BY <1>2 DEF Rewrite, parseVars
<1>3. CASE Find
  BY <1>3 DEF Find
<1>4. CASE NextKind
  BY <1>4 DEF NextKind
<1>5. CASE Searched
  <2>1. accepted = <<>> /\ accepted' = <<>> /\ text' = text
    BY <1>5 DEF Searched, IInv, SearchOK, parseVars
  <2>2. Boundaries' = {}
    BY <2>1 DEF Boundaries
  <2> QED BY <1>5, <2>1, <2>2 DEF Searched, LaidOut, Marks, parseVars
<1>6. CASE Resolve
  BY <1>6 DEF Resolve
<1>7. CASE Resolved
  <2>1. /\ pc' = "emit" /\ seg' = 1 /\ cursor' = 1 /\ out' = <<>> /\ text' = text
        /\ accepted' = accepted
    BY <1>7 DEF Resolved, parseVars, IInv, SearchOK
  <2>2. Width(<<>>) = Before(text', 1) /\ Layout(<<>>) = {}
    BY EmptyLayout
  <2>3. Part(text', 1, 1) = {} /\ Marks(Ends(seg - 1))' = {}
    <3>1. 1 .. 1 - 1 = {} /\ 1 .. seg' - 1 = {}
      BY <2>1
    <3> QED BY <3>1 DEF Part, Ends, Marks
  <2> QED BY <2>1, <2>2, <2>3
<1>8. CASE Emit
  BY <1>8, EmitLaysOut
<1>9. CASE EmitRest
  BY <1>9, EmitRestLaysOut
<1>10. CASE Collapse
  BY <1>10, CollapseLaysOut
<1>11. CASE Replay
  BY <1>11 DEF Replay, Fresh
<1>12. CASE UNCHANGED vars
  BY <1>12 DEF vars, parseVars, LaidOut, Boundaries, Ends, Marks
<1> QED
  BY <1>1, <1>2, <1>3, <1>4, <1>5, <1>6, <1>7, <1>8, <1>9, <1>10, <1>11, <1>12 DEF Next, Parse

(***************************************************************************)
(* The text the segments are looked for in is the payload that came in,    *)
(* with placeholders as soon as the parser has it.                         *)
(***************************************************************************)
Origin ==
  /\ pc \in {"resolve", "emit", "collapse"} => Parsed
  /\ pc \in {"find", "resolve", "emit", "collapse"} \/ Parsed => text = Normal(given)
  /\ pc = "arrived" => text = given /\ ~ Parsed
  /\ pc = "done" /\ ~ Parsed => text = given /\ out = given

LEMMA OriginInit == Init => Origin
  BY DEF Init, Origin, Parsed, Kinds

LEMMA OriginStep == ASSUME IInv, Origin, [Next]_vars PROVE Origin'
<1> USE DEF Origin, Parsed
<1>1. CASE LeaveUnchanged
  BY <1>1 DEF LeaveUnchanged, parseVars
<1>2. CASE Rewrite
  BY <1>2 DEF Rewrite, parseVars
<1>3. CASE Find
  BY <1>3 DEF Find
<1>4. CASE NextKind
  BY <1>4 DEF NextKind
<1>5. CASE Searched
  BY <1>5 DEF Searched, parseVars
<1>6. CASE Resolve
  BY <1>6 DEF Resolve
<1>7. CASE Resolved
  BY <1>7 DEF Resolved, parseVars
<1>8. CASE Emit
  BY <1>8 DEF Emit
<1>9. CASE EmitRest
  BY <1>9 DEF EmitRest, parseVars
<1>10. CASE Collapse
  BY <1>10 DEF Collapse, parseVars
<1>11. CASE Replay
  BY <1>11 DEF Replay, Fresh, Kinds
<1>12. CASE UNCHANGED vars
  BY <1>12 DEF vars, parseVars
<1> QED
  BY <1>1, <1>2, <1>3, <1>4, <1>5, <1>6, <1>7, <1>8, <1>9, <1>10, <1>11, <1>12 DEF Next, Parse

(***************************************************************************)
(* The rewriting only injects separators and replaces header values:       *)
(* whatever the payload and its matches are, and however often it is       *)
(* rewritten, no atom is lost, doubled or moved, a value gives way to its  *)
(* placeholder, and the separators are where the segments end.             *)
(***************************************************************************)
THEOREM OnlyInjects == Spec => []OnlySeparators
<1>1. IInv /\ LInv /\ Origin => OnlySeparators
  <2> SUFFICES ASSUME IInv, LInv, Origin, pc = "done" PROVE OnlySeparators
    BY DEF OnlySeparators
  <2>1. Parsed => Layout(out) = Layout(Normal(given)) \cup {<<b, Sep>> : b \in Boundaries}
    BY DEF LInv, LaidOut, Marks, Origin
  <2>2. accepted # <<>> => \A p \in 1 .. Len(out) - 1 : out[p] # Sep \/ out[p + 1] # Sep
    BY DEF LInv, Doubled
  <2>3. ~ Parsed => out = given
    BY DEF Origin
  <2> QED BY <2>1, <2>2, <2>3 DEF OnlySeparators
<1>2. IInv /\ LInv /\ Origin /\ [Next]_vars => IInv' /\ LInv' /\ Origin'
  BY IInvStep, LaidOutStep, OriginStep
<1> QED BY IInvInit, LaidOutInit, OriginInit, <1>1, <1>2, PTL DEF Spec

-----------------------------------------------------------------------------
(***************************************************************************)
(* A text without doubled separators is what its layout says.              *)
(***************************************************************************)
Places(t) == {q \in 1 .. Len(t) : t[q] # Sep}

LEMMA BeforeGrows ==
  ASSUME NEW t, NEW p \in Nat \ {0}, NEW q \in Nat \ {0}, p <= q
  PROVE  /\ Before(t, p) \in Nat /\ Before(t, p) <= Before(t, q)
         /\ Before(t, p) = Before(t, q) => \A x \in p .. q - 1 : t[x] = Sep
<1> DEFINE C == {y \in 1 .. p - 1 : t[y] # Sep}
           D == {y \in 1 .. q - 1 : t[y] # Sep}
<1>1. IsFiniteSet(D) /\ Cardinality(D) \in Nat
  <2>1. D \in SUBSET (1 .. q - 1) /\ IsFiniteSet(1 .. q - 1)
    BY FS_Interval
  <2> QED BY <2>1, FS_Subset, FS_CardinalityType
<1>2. C \in SUBSET D
  OBVIOUS
<1>3. Cardinality(C) \in Nat /\ Cardinality(C) <= Cardinality(D) /\ (Cardinality(C) = Cardinality(D) => C = D)
  <2> HIDE DEF C, D
  <2>1. IsFiniteSet(C) /\ Cardinality(C) <= Cardinality(D) /\ (Cardinality(D) = Cardinality(C) => D = C)
    BY <1>1, <1>2, FS_Subset
  <2> QED BY <1>1, <2>1, FS_CardinalityType
<1>4. ASSUME C = D, NEW x \in p .. q - 1 PROVE t[x] = Sep
  <2>1. x \in 1 .. q - 1 /\ x \notin 1 .. p - 1
    OBVIOUS
  <2>2. x \notin C
    BY <2>1
  <2>3. x \in D \/ t[x] = Sep
    BY <2>1
  <2> HIDE DEF C, D
  <2> QED BY <1>4, <2>2, <2>3
<1>5. Before(t, p) = Cardinality(C) /\ Before(t, q) = Cardinality(D)
  BY DEF Before
<1> HIDE DEF C, D
<1> QED BY <1>3, <1>4, <1>5

LEMMA AllApart ==
  ASSUME NEW t \in Seq(Atom), Doubled(t) = {}, NEW p \in DOMAIN t, NEW q \in DOMAIN t,
         Before(t, p) = Before(t, q), t[p] = t[q]
  PROVE  p = q
<1>1. ASSUME NEW i \in DOMAIN t, NEW j \in DOMAIN t, i < j, Before(t, i) = Before(t, j), t[i] = t[j] PROVE FALSE
  <2>1. i \in 1 .. Len(t) /\ j \in 1 .. Len(t) /\ i \in Nat \ {0} /\ j \in Nat \ {0} /\ i <= j /\ Len(t) \in Nat
    BY <1>1
  <2>2. \A x \in i .. j - 1 : t[x] = Sep
    BY <1>1, <2>1, BeforeGrows
  <2>3. t[i] = Sep /\ t[j] = Sep
    <3>1. i \in i .. j - 1
      BY <1>1, <2>1
    <3> QED BY <1>1, <2>2, <3>1
  <2>4. t[i + 1] = Sep
    <3>1. i + 1 = j \/ i + 1 \in i .. j - 1
      BY <1>1, <2>1
    <3> QED BY <2>2, <2>3, <3>1
  <2>5. i \in 1 .. Len(t) - 1
    BY <1>1, <2>1
  <2>6. i \in Doubled(t)
    BY <2>3, <2>4, <2>5 DEF Doubled
  <2> QED BY <2>6
<1>2. p \in Nat /\ q \in Nat
  OBVIOUS
<1>3. p < q \/ q < p \/ p = q
  BY <1>2
<1> QED BY <1>1, <1>3

LEMMA LayoutSize ==
  ASSUME NEW t \in Seq(Atom), Doubled(t) = {}
  PROVE  IsFiniteSet(Layout(t)) /\ Cardinality(Layout(t)) = Len(t) /\ Len(t) \in Nat
<1> DEFINE f == [p \in DOMAIN t |-> <<Before(t, p), t[p]>>]
<1>1. Len(t) \in Nat /\ DOMAIN t = 1 .. Len(t)
  BY LenProperties
<1>2. f \in [DOMAIN t -> Layout(t)]
  BY DEF Layout
<1>3. ASSUME NEW p \in DOMAIN t, NEW q \in DOMAIN t, f[p] = f[q] PROVE p = q
  <2>1. Before(t, p) = Before(t, q) /\ t[p] = t[q]
    BY <1>3
  <2> QED BY <2>1, AllApart
<1>4. \A e \in Layout(t) : \E p \in DOMAIN t : f[p] = e
  BY DEF Layout
<1>5. ExistsBijection(DOMAIN t, Layout(t))
  <2> HIDE DEF f
  <2>1. f \in Bijection(DOMAIN t, Layout(t))
    BY <1>2, <1>3, <1>4 DEF Bijection, Injection, Surjection, IsInjective
  <2> QED BY <2>1 DEF ExistsBijection
<1>6. IsFiniteSet(1 .. Len(t)) /\ Cardinality(1 .. Len(t)) = Len(t)
  BY <1>1, FS_Interval
<1>7. IsFiniteSet(DOMAIN t) /\ Cardinality(DOMAIN t) = Len(t)
  BY <1>1, <1>6
<1> QED BY <1>1, <1>5, <1>7, FS_Bijection

LEMMA ComesLater ==
  ASSUME NEW u \in Seq(Atom), NEW t \in Seq(Atom), Doubled(u) = {}, Layout(u) \subseteq Layout(t),
         NEW p \in DOMAIN u, p \in DOMAIN t, \A x \in 1 .. p - 1 : u[x] = t[x], u[p] # t[p]
  PROVE  t[p] = Sep
<1>1. p \in Nat \ {0} /\ DOMAIN u = 1 .. Len(u) /\ DOMAIN t = 1 .. Len(t) /\ Len(u) \in Nat /\ Len(t) \in Nat
      /\ p <= Len(u)
  OBVIOUS
<1>2. Before(u, p) = Before(t, p)
  BY <1>1, BeforeSame
<1>3. PICK q \in DOMAIN t : Before(t, q) = Before(u, p) /\ t[q] = u[p]
  <2>1. <<Before(u, p), u[p]>> \in Layout(t)
    BY DEF Layout
  <2> QED BY <2>1 DEF Layout
<1>4. q \in Nat \ {0}
  BY <1>1
<1>5. CASE q < p
  <2>1. q \in 1 .. p - 1 /\ q \in DOMAIN u
    BY <1>1, <1>4, <1>5
  <2>2. u[q] = u[p]
    BY <1>3, <2>1
  <2>3. Before(u, q) = Before(t, q)
    <3>1. \A x \in 1 .. q - 1 : u[x] = t[x]
      BY <1>1, <1>4, <1>5
    <3> QED BY <1>4, <3>1, BeforeSame
  <2>4. q = p
    BY <1>3, <2>1, <2>2, <2>3, AllApart
  <2> QED BY <1>5, <2>4, <1>1
<1>6. CASE q = p
  BY <1>3, <1>6
<1>7. CASE p < q
  <2>1. \A x \in p .. q - 1 : t[x] = Sep
    BY SMTT(40), <1>1, <1>2, <1>3, <1>4, <1>7, BeforeGrows
  <2>2. p \in p .. q - 1
    BY <1>1, <1>4, <1>7
  <2> QED BY <2>1, <2>2
<1> QED BY <1>1, <1>4, <1>5, <1>6, <1>7

LEMMA LayoutIs ==
  ASSUME NEW u \in Seq(Atom), NEW t \in Seq(Atom), Doubled(u) = {}, Doubled(t) = {}, Layout(u) = Layout(t)
  PROVE  u = t
<1>1. Len(u) = Len(t) /\ Len(u) \in Nat /\ DOMAIN u = 1 .. Len(u) /\ DOMAIN t = 1 .. Len(u)
  BY LayoutSize
<1> DEFINE T == {p \in 1 .. Len(u) : u[p] # t[p]}
<1>2. ASSUME T # {} PROVE FALSE
  <2>1. PICK p \in T : \A y \in T : p <= y
    <3>1. T \in SUBSET Nat
      OBVIOUS
    <3> HIDE DEF T
    <3> QED BY <1>2, <3>1, LeastOf
  <2>2. p \in 1 .. Len(u) /\ u[p] # t[p]
    OBVIOUS
  <2>3. \A x \in 1 .. p - 1 : u[x] = t[x]
    <3> SUFFICES ASSUME NEW x \in 1 .. p - 1, u[x] # t[x] PROVE FALSE
      OBVIOUS
    <3>1. x \in 1 .. Len(u) /\ x < p
      BY <1>1, <2>2
    <3>2. x \in T
      BY <3>1
    <3>3. p <= x
      BY <2>1, <3>2
    <3> QED BY <1>1, <2>2, <3>1, <3>3
  <2> HIDE DEF T
  <2>4. t[p] = Sep
    BY <1>1, <2>2, <2>3, ComesLater
  <2>5. u[p] = Sep
    BY <1>1, <2>2, <2>3, ComesLater
  <2> QED BY <2>2, <2>4, <2>5
<1>3. \A p \in 1 .. Len(u) : u[p] = t[p]
  BY <1>2
<1> HIDE DEF T
<1> QED BY <1>1, <1>3, SeqEqual

LEMMA RoomForSeparators ==
  ASSUME NEW t \in Seq(Atom), NEW W, W = Before(t, Len(t) + 1), NEW B \in SUBSET (0 .. W),
         NEW L, L = Layout(t) \cup Marks(B)
  PROVE  W \in Nat /\ IsFiniteSet(L) /\ Cardinality(L) <= 2 * W + 1
<1>1. Len(t) \in Nat /\ DOMAIN t = 1 .. Len(t) /\ Len(t) + 1 \in Nat \ {0}
  BY LenProperties
<1>2. W \in Nat
  BY <1>1, BeforeGrows
<1> DEFINE P == Places(t)
           f == [q \in P |-> <<Before(t, q), t[q]>>]
           E == {<<Before(t, q), t[q]>> : q \in P}
           S == 0 .. W
           g == [b \in S |-> <<b, Sep>>]
           M == {<<b, Sep>> : b \in S}
<1>3. IsFiniteSet(P) /\ Cardinality(P) = W
  <2>1. P \in SUBSET (1 .. Len(t)) /\ IsFiniteSet(1 .. Len(t))
    BY <1>1, FS_Interval DEF Places
  <2>2. IsFiniteSet(P)
    BY <2>1, FS_Subset
  <2>3. (Len(t) + 1) - 1 = Len(t)
    BY <1>1
  <2> QED BY <2>2, <2>3 DEF Before, Places
<1>4. IsFiniteSet(E) /\ Cardinality(E) <= W
  <2>1. f \in Surjection(P, E)
    BY DEF Surjection
  <2> HIDE DEF f, P, E
  <2> QED BY <1>3, <2>1, FS_Surjection
<1>5. IsFiniteSet(S) /\ Cardinality(S) = W + 1
  <2>1. PICK a, b \in Int : a = 0 /\ b = W
    BY <1>2
  <2>2. IsFiniteSet(a .. b) /\ Cardinality(a .. b) = IF a > b THEN 0 ELSE b - a + 1
    BY FS_Interval
  <2> QED BY <1>2, <2>1, <2>2
<1>6. IsFiniteSet(M) /\ Cardinality(M) <= W + 1
  <2>1. g \in Surjection(S, M)
    BY DEF Surjection
  <2> HIDE DEF g, S, M
  <2> QED BY <1>5, <2>1, FS_Surjection
<1>7. L \in SUBSET (E \cup M)
  <2>1. ASSUME NEW q \in DOMAIN t PROVE <<Before(t, q), t[q]>> \in E \cup M
    <3>1. CASE t[q] # Sep
      BY <1>1, <3>1 DEF Places
    <3>2. CASE t[q] = Sep
      <4>1. Before(t, q) \in Nat /\ Before(t, q) <= W
        <5>1. q \in Nat \ {0} /\ q <= Len(t) + 1
          BY <1>1
        <5> QED BY <1>1, <5>1, BeforeGrows
      <4>2. Before(t, q) \in 0 .. W
        BY <1>2, <4>1
      <4> QED BY <3>2, <4>2
    <3> QED BY <3>1, <3>2
  <2>2. Marks(B) \subseteq M
    BY DEF Marks
  <2>3. Layout(t) \subseteq E \cup M
    BY <2>1 DEF Layout
  <2> HIDE DEF E, M
  <2> QED BY <2>2, <2>3
<1> HIDE DEF E, M
<1>8. PICK U : U = E \cup M
  OBVIOUS
<1>9. IsFiniteSet(U) /\ Cardinality(U) <= 2 * W + 1 /\ Cardinality(U) \in Nat
  <2>1. IsFiniteSet(U) /\ Cardinality(U) = Cardinality(E) + Cardinality(M) - Cardinality(E \cap M)
    BY <1>4, <1>6, <1>8, FS_Union
  <2>2. IsFiniteSet(E \cap M)
    <3>1. E \cap M \in SUBSET E
      OBVIOUS
    <3> QED BY <1>4, <3>1, FS_Subset
  <2>3. Cardinality(E) \in Nat /\ Cardinality(M) \in Nat /\ Cardinality(E \cap M) \in Nat /\ Cardinality(U) \in Nat
    BY <1>4, <1>6, <2>1, <2>2, FS_CardinalityType
  <2> QED BY <1>2, <1>4, <1>6, <2>1, <2>3
<1>10. IsFiniteSet(L) /\ Cardinality(L) <= Cardinality(U) /\ Cardinality(L) \in Nat
  BY <1>7, <1>8, <1>9, FS_Subset, FS_CardinalityType
<1> QED BY <1>2, <1>9, <1>10

(***************************************************************************)
(* Where a rewriting that found segments ends, nothing is doubled.         *)
(***************************************************************************)
Undoubled == pc = "done" => out = text \/ Doubled(out) = {}

LEMMA UndoubledStep == ASSUME IInv, Undoubled, [Next]_vars PROVE Undoubled'
<1> SUFFICES ASSUME pc' = "done" PROVE out' = text' \/ Doubled(out)' = {}
  BY DEF Undoubled
<1>1. CASE LeaveUnchanged \/ Searched
  BY <1>1 DEF LeaveUnchanged, Searched, parseVars
<1>2. CASE Collapse
  BY <1>2 DEF Collapse, Doubled
<1>3. CASE UNCHANGED vars
  BY <1>3 DEF vars, Undoubled, Doubled
<1>4. CASE Rewrite \/ Find \/ NextKind \/ Resolve \/ Resolved \/ Emit \/ EmitRest \/ Replay
  BY <1>4 DEF Rewrite, Find, NextKind, Resolve, Resolved, Emit, EmitRest, Replay
<1> QED BY <1>1, <1>2, <1>3, <1>4 DEF Next, Parse

LEMMA BoundariesInside ==
  ASSUME IInv, NEW W, W = Before(text, Len(text) + 1)
  PROVE  Boundaries \in SUBSET (0 .. W)
<1> SUFFICES ASSUME NEW i \in DOMAIN accepted, NEW p \in {accepted[i].start, accepted[i].end}
             PROVE  Before(text, p) \in 0 .. W
  BY DEF Boundaries
<1>1. Len(text) \in Nat
  BY DEF IInv, Types
<1>2. accepted[i] \in found
  BY DEF IInv, Types, TypeOK
<1>3. MatchType(accepted[i])
  BY <1>2 DEF IInv, Types, TypeOK
<1>4. p \in Nat \ {0} /\ p <= Len(text) + 1 /\ Len(text) + 1 \in Nat \ {0}
  BY <1>1, <1>3 DEF MatchType
<1>5. Before(text, p) \in Nat /\ Before(text, p) <= W
  BY <1>4, BeforeGrows
<1>6. W \in Nat
  BY <1>4, BeforeGrows
<1> QED BY <1>5, <1>6

(***************************************************************************)
(* Placeholders are no separators and take up as much room as the values.  *)
(***************************************************************************)
LEMMA NormalRoom ==
  ASSUME NEW t \in Seq(Atom)
  PROVE  /\ \A p \in 1 .. Len(t) + 1 : Before(Normal(t), p) = Before(t, p)
         /\ Doubled(Normal(t)) = Doubled(t)
<1>1. Len(t) \in Nat /\ DOMAIN t = 1 .. Len(t) /\ Len(Normal(t)) = Len(t)
  BY NormalType, LenProperties
<1>2. \A q \in 1 .. Len(t) : Normal(t)[q] = Sep <=> t[q] = Sep
  <2>1. \A a : NormalAtom(a) = Sep <=> a = Sep
    BY DEF NormalAtom, CchValues, VersionValues, CchPlaceholder, VersionPlaceholder, Sep
  <2> QED BY <1>1, <2>1, NormalType
<1>3. ASSUME NEW p \in 1 .. Len(t) + 1 PROVE Before(Normal(t), p) = Before(t, p)
  <2>1. \A q \in 1 .. p - 1 : q \in 1 .. Len(t)
    BY <1>1
  <2>2. {q \in 1 .. p - 1 : Normal(t)[q] # Sep} = {q \in 1 .. p - 1 : t[q] # Sep}
    BY <1>2, <2>1
  <2> QED BY <2>2 DEF Before
<1>4. \A p \in 1 .. Len(t) - 1 : p \in 1 .. Len(t) /\ p + 1 \in 1 .. Len(t)
  BY <1>1
<1>5. Doubled(Normal(t)) = Doubled(t)
  BY <1>1, <1>2, <1>4 DEF Doubled
<1> QED BY <1>3, <1>5

LEMMA LaterIsLonger ==
  ASSUME IInv, LInv, Undoubled, pc = "done", Doubled(text) = {}
  PROVE  /\ out # text => Len(text) < Len(out)
         /\ Len(out) <= 2 * Before(text, Len(text) + 1) + 1
<1>1. Doubled(out) = {} /\ Layout(out) = Layout(text) \cup Marks(Boundaries)
      /\ text \in Seq(Atom) /\ out \in Seq(Atom)
  BY DEF Undoubled, LInv, LaidOut, IInv, Types
<1>2. PICK L, M : L = Layout(out) /\ M = Layout(text)
  OBVIOUS
<1>3. /\ IsFiniteSet(L) /\ Cardinality(L) = Len(out) /\ Len(out) \in Nat
      /\ IsFiniteSet(M) /\ Cardinality(M) = Len(text) /\ Len(text) \in Nat
  BY <1>1, <1>2, LayoutSize
<1>4. out # text => L # M
  BY <1>1, <1>2, LayoutIs
<1>5. M \in SUBSET L
  BY <1>1, <1>2
<1>6. Cardinality(M) <= Cardinality(L) /\ (out # text => Cardinality(L) # Cardinality(M))
  BY <1>3, <1>4, <1>5, FS_Subset
<1>7. PICK W : W = Before(text, Len(text) + 1)
  OBVIOUS
<1>8. Boundaries \in SUBSET (0 .. W)
  BY <1>7, BoundariesInside
<1>9. W \in Nat /\ Cardinality(L) <= 2 * W + 1
  BY <1>1, <1>2, <1>7, <1>8, RoomForSeparators
<1> QED BY <1>3, <1>6, <1>7, <1>9

LEMMA NoValueLeft ==
  ASSUME IInv, LInv, Origin, pc = "done", Parsed
  PROVE  Values(out) = {}
<1>1. /\ Layout(out) = Layout(text) \cup Marks(Boundaries)
      /\ text = Normal(given) /\ Values(text) = {}
  BY NormalType DEF LInv, LaidOut, Origin, IInv, Types
<1>2. ASSUME NEW p \in DOMAIN out PROVE out[p] \notin CchValues \cup VersionValues
  <2>1. <<Before(out, p), out[p]>> \in Layout(text) \cup Marks(Boundaries)
    BY <1>1 DEF Layout
  <2>2. CASE <<Before(out, p), out[p]>> \in Layout(text)
    <3>1. PICK q \in DOMAIN text : text[q] = out[p]
      BY <2>2 DEF Layout
    <3> QED BY <1>1, <3>1 DEF Values
  <2>3. CASE <<Before(out, p), out[p]>> \in Marks(Boundaries)
    <3>1. out[p] = Sep
      BY <2>3 DEF Marks
    <3> QED BY <3>1 DEF Sep, CchValues, VersionValues
  <2> QED BY <2>1, <2>2, <2>3
<1> QED BY <1>2 DEF Values

(***************************************************************************)
(* Rewriting a payload again and again comes to an end: the first time no  *)
(* header value is left, and each later change of a payload without        *)
(* doubled separators is a separator more, where there was room.           *)
(***************************************************************************)
THEOREM ComesToAnEnd == Spec => []Settles
<1>1. ASSUME IInv, LInv, Undoubled, Origin PROVE Settles
  <2> SUFFICES ASSUME pc = "done", Doubled(given) = {}, out # given
               PROVE  /\ Values(out) = {}
                      /\ Values(given) = {} => Len(given) < Len(out)
                      /\ Len(out) <= 2 * Before(given, Len(given) + 1) + 1
    BY DEF Settles
  <2>1. Parsed /\ text = Normal(given) /\ given \in Seq(Atom)
    BY <1>1 DEF Origin, IInv, Types
  <2>2. Values(out) = {}
    BY <1>1, <2>1, NoValueLeft
  <2>3. /\ Doubled(text) = {} /\ Len(text) = Len(given)
        /\ Before(text, Len(text) + 1) = Before(given, Len(given) + 1)
        /\ Values(given) = {} => text = given
    <3>1. Len(given) + 1 \in 1 .. Len(given) + 1
      BY <2>1, LenProperties
    <3> QED BY <2>1, <3>1, NormalType, NormalRoom
  <2>4. /\ out # text => Len(text) < Len(out)
        /\ Len(out) <= 2 * Before(text, Len(text) + 1) + 1
    BY <1>1, <2>3, LaterIsLonger
  <2> QED BY <2>2, <2>3, <2>4
<1>2. Init => Undoubled
  BY DEF Init, Undoubled
<1>3. /\ IInv /\ LInv /\ Undoubled /\ Origin /\ [Next]_vars
      => IInv' /\ LInv' /\ Undoubled' /\ Origin'
  BY IInvStep, LaidOutStep, UndoubledStep, OriginStep
<1> QED BY IInvInit, LaidOutInit, OriginInit, <1>1, <1>2, <1>3, PTL DEF Spec

-----------------------------------------------------------------------------
(***************************************************************************)
(* Tagging takes the rewriting for granted: what is tagged is what Spec    *)
(* puts out, so that the theorems above hold of the whole payload path.    *)
(***************************************************************************)
LEMMA TagsStep == [NextTags]_<<vars, tagVars>> => [Next]_vars
  BY DEF NextTags, ParseStep, EmitMatch, EmitLast, SendAgain, Next, vars

THEOREM TagsParse == SpecTags => Spec
<1>1. InitTags => Init
  BY DEF InitTags
<1> QED BY <1>1, TagsStep, PTL DEF SpecTags, Spec

-----------------------------------------------------------------------------
(***************************************************************************)
(* The greatest and the least of a set of numbers.                         *)
(***************************************************************************)
LEMMA MaxOfFinite ==
  ASSUME NEW S \in SUBSET Nat, IsFiniteSet(S), S # {}
  PROVE  Max(S) \in S
<1> DEFINE Top(s) == \E m \in s : \A y \in s : m >= y
           T == {k \in Nat : \A s \in SUBSET S : s # {} /\ Cardinality(s) <= k => Top(s)}
<1>0. \A s \in SUBSET S : IsFiniteSet(s) /\ Cardinality(s) \in Nat
  BY FS_Subset, FS_CardinalityType
<1>1. 0 \in T
  BY <1>0, FS_EmptySet
<1>2. ASSUME NEW k \in T PROVE k + 1 \in T
  <2>1. ASSUME NEW s \in SUBSET S, s # {}, Cardinality(s) <= k + 1 PROVE Top(s)
    <3>1. PICK x \in s : TRUE
      BY <2>1
    <3>2. s \ {x} \in SUBSET S /\ Cardinality(s \ {x}) <= k
      BY <1>0, <2>1, FS_RemoveElement
    <3>3. CASE s \ {x} = {}
      <4>1. \A y \in s : x >= y
        BY <3>3
      <4> QED BY <4>1
    <3>4. CASE s \ {x} # {}
      <4>1. PICK m \in s \ {x} : \A y \in s \ {x} : m >= y
        BY <3>2, <3>4
      <4>2. m \in Nat /\ x \in Nat /\ \A y \in s : y = x \/ m >= y
        BY <4>1
      <4>3. CASE m >= x
        BY <4>1, <4>2, <4>3
      <4>4. CASE x > m
        <5>1. \A y \in s : x >= y
          BY <4>2, <4>4
        <5> QED BY <5>1
      <4> QED BY <4>2, <4>3, <4>4
    <3> QED BY <3>3, <3>4
  <2> QED BY <2>1
<1>3. T = Nat
  <2>1. T \in SUBSET Nat
    OBVIOUS
  <2> HIDE DEF T
  <2> QED BY <1>1, <1>2, <2>1, Induct
<1>4. Top(S)
  BY <1>0, <1>3
<1> QED BY <1>4 DEF Max

LEMMA MinOfNumbers ==
  ASSUME NEW S \in SUBSET Nat, S # {}
  PROVE  Min(S) \in S
<1>1. \E n \in S : \A m \in S : n <= m
  BY LeastOf
<1> QED BY <1>1 DEF Min

(***************************************************************************)
(* A match of the index is a piece of the payload, and not empty.          *)
(***************************************************************************)
LEMMA MatchInside ==
  ASSUME NEW h \in Seq(Atom), NEW m \in FindMatches(h)
  PROVE  /\ m.start \in 1 .. Len(h) /\ m.end \in m.start + 1 .. Len(h) + 1
<1>1. PICK s \in Skill : Occurring(s, h) # {} /\ m = MatchOf(s, h)
  BY DEF FindMatches
<1> DEFINE n == Max(Occurring(s, h))
           p == Min(Occurrences(h, Prefix(s, n)))
<1>2. n \in Occurring(s, h)
  <2>1. Occurring(s, h) \in SUBSET Anchors
    BY DEF Occurring
  <2>2. IsFiniteSet(Occurring(s, h)) /\ Occurring(s, h) \in SUBSET Nat
    BY <2>1, TagsAssumption, FS_Subset
  <2> QED BY <1>1, <2>2, MaxOfFinite
<1> HIDE DEF n
<1>3. n \in Nat \ {0} /\ n <= Len(Body[s]) /\ Occurrences(h, Prefix(s, n)) # {}
  BY <1>2, TagsAssumption DEF Occurring
<1>4. Len(h) \in Nat /\ DOMAIN h = 1 .. Len(h)
  BY LenProperties
<1>5. p \in Occurrences(h, Prefix(s, n))
  <2>1. Occurrences(h, Prefix(s, n)) \in SUBSET Nat
    BY <1>4 DEF Occurrences
  <2> QED BY <1>3, <2>1, MinOfNumbers
<1> HIDE DEF p
<1>6. Len(Prefix(s, n)) = n
  <2>1. Body[s] \in Seq(Atom)
    BY TagsAssumption
  <2>2. \A i \in 1 .. n : Body[s][i] \in Atom
    BY <1>3, <2>1, ElementOfSeq, LenProperties
  <2> QED BY <1>3, <2>2, SubSeqProperties DEF Prefix
<1>7. p \in 1 .. Len(h) /\ p + n - 1 <= Len(h)
  BY <1>4, <1>5, <1>6 DEF Occurrences, StartsWith
<1>8. m = [skill |-> s, start |-> p, end |-> p + n]
  BY <1>1 DEF MatchOf, n, p
<1> QED BY <1>3, <1>4, <1>7, <1>8

-----------------------------------------------------------------------------
(***************************************************************************)
(* Runs of tokens, and what appending one does to the tokens emitted.      *)
(***************************************************************************)
Token == [pos : Nat, tag : {"skill_body", "dynamic", "other"}]
IsRun(R, s, n) == R \in Seq(Token) /\ Len(R) = n /\ \A i \in 1 .. n : R[i].pos = s + i - 1
Tokens(E) == {E[i] : i \in DOMAIN E}
Positions(E) == {E[i].pos : i \in DOMAIN E}

SkillToken(p) == [pos |-> p, tag |-> "skill_body"]
OwnTag(k) == k.tag = IF out[k.pos] = Marker THEN "dynamic" ELSE BaseTag

LEMMA RunOf ==
  ASSUME NEW n \in Nat, NEW f \in [1 .. n -> Token]
  PROVE  f \in Seq(Token) /\ Len(f) = n
OBVIOUS

LEMMA PlainRun ==
  ASSUME NEW s \in Nat, NEW e \in Nat
  PROVE  /\ IsRun(Plain(s, e), s, IF s <= e THEN e - s ELSE 0)
         /\ \A k \in Tokens(Plain(s, e)) : OwnTag(k)
<1> DEFINE n == IF s <= e THEN e - s ELSE 0
<1>1. n \in Nat /\ 1 .. e - s = 1 .. n
  OBVIOUS
<1>2. /\ Plain(s, e) \in [1 .. n -> Token] /\ DOMAIN Plain(s, e) = 1 .. n
      /\ \A i \in 1 .. n : Plain(s, e)[i].pos = s + i - 1
  BY <1>1 DEF Plain, Token, BaseTag
<1>3. ASSUME NEW i \in 1 .. n PROVE OwnTag(Plain(s, e)[i])
  BY <1>1, <1>3 DEF Plain, OwnTag
<1> HIDE DEF n
<1>4. Plain(s, e) \in Seq(Token) /\ Len(Plain(s, e)) = n
  BY <1>1, <1>2, RunOf
<1>5. \A k \in Tokens(Plain(s, e)) : OwnTag(k)
  BY <1>2, <1>3 DEF Tokens
<1> QED BY <1>2, <1>4, <1>5 DEF IsRun, n

LEMMA InsideRun ==
  ASSUME NEW m, m.start \in Nat, m.end \in Nat, m.start < m.end
  PROVE  /\ IsRun(Inside(m), m.start, m.end - m.start)
         /\ Tokens(Inside(m)) = {SkillToken(p) : p \in m.start .. m.end - 1}
<1>1. PICK s \in Nat, n \in Nat : s = m.start /\ n = m.end - m.start
  OBVIOUS
<1>2. /\ Inside(m) \in [1 .. n -> Token] /\ DOMAIN Inside(m) = 1 .. n
      /\ \A i \in 1 .. n : Inside(m)[i] = SkillToken(s + i - 1)
      /\ \A i \in 1 .. n : Inside(m)[i].pos = s + i - 1
  BY <1>1 DEF Inside, Token, SkillToken
<1>3. Inside(m) \in Seq(Token) /\ Len(Inside(m)) = n
  BY <1>2, RunOf
<1>4. Tokens(Inside(m)) = {SkillToken(p) : p \in m.start .. m.end - 1}
  <2>1. ASSUME NEW p \in m.start .. m.end - 1 PROVE SkillToken(p) \in Tokens(Inside(m))
    <3>1. p - s + 1 \in 1 .. n /\ s + (p - s + 1) - 1 = p
      BY <1>1
    <3> QED BY <1>2, <3>1 DEF Tokens
  <2>2. ASSUME NEW i \in 1 .. n
        PROVE  Inside(m)[i] \in {SkillToken(p) : p \in m.start .. m.end - 1}
    <3>1. s + i - 1 \in m.start .. m.end - 1
      BY <1>1
    <3> QED BY <1>2, <3>1
  <2> QED BY <1>2, <2>1, <2>2 DEF Tokens
<1> QED BY <1>1, <1>2, <1>3, <1>4 DEF IsRun

Appended(E, R, s, n) ==
  /\ E \o R \in Seq(Token)
  /\ Tokens(E \o R) = Tokens(E) \cup Tokens(R)
  /\ Positions(E \o R) = Positions(E) \cup (s .. s + n - 1)

(***************************************************************************)
(* Tokens come in order but for the contested ones.                        *)
(***************************************************************************)
Rising(E) ==
  \A i, j \in DOMAIN E : i < j /\ E[j].pos <= E[i].pos => Contested(E[i].pos)

LEMMA RunAppended ==
  ASSUME NEW E \in Seq(Token), NEW R, NEW s \in Nat, NEW n \in Nat, IsRun(R, s, n)
  PROVE  /\ Appended(E, R, s, n)
         /\ Rising(E) /\ (\A p \in Positions(E) : n > 0 /\ s <= p => Contested(p))
              => Rising(E \o R)
<1> DEFINE V == E \o R
<1>1. R \in Seq(Token) /\ Len(R) = n /\ \A i \in 1 .. n : R[i].pos = s + i - 1
  BY DEF IsRun
<1>2. PICK a \in Nat : a = Len(E)
  BY LenProperties
<1>3. /\ V \in Seq(Token) /\ Len(V) = a + n
      /\ \A i \in 1 .. a + n : V[i] = IF i <= a THEN E[i] ELSE R[i - a]
  BY <1>1, <1>2, ConcatProperties
<1>4. DOMAIN V = 1 .. a + n /\ DOMAIN E = 1 .. a /\ DOMAIN R = 1 .. n
  BY <1>1, <1>2, <1>3, LenProperties
<1> HIDE DEF V
<1>5. \A i \in 1 .. a : V[i] = E[i] /\ i \in 1 .. a + n
  BY <1>3
<1>6. \A i \in 1 .. n : V[a + i] = R[i] /\ a + i \in 1 .. a + n
  <2>1. ASSUME NEW i \in 1 .. n PROVE V[a + i] = R[i] /\ a + i \in 1 .. a + n
    <3>1. a + i \in 1 .. a + n /\ ~(a + i <= a) /\ (a + i) - a = i
      OBVIOUS
    <3> QED BY <1>3, <3>1
  <2> QED BY <2>1
<1>7. \A i \in 1 .. a + n : i \in 1 .. a \/ (i - a \in 1 .. n /\ V[i] = R[i - a] /\ i > a)
  BY <1>3
<1>8. Tokens(V) = Tokens(E) \cup Tokens(R)
  BY SMTT(40), <1>4, <1>5, <1>6, <1>7 DEF Tokens
<1>9. Positions(V) = Positions(E) \cup (s .. s + n - 1)
  <2>1. ASSUME NEW i \in 1 .. a + n PROVE V[i].pos \in Positions(E) \cup (s .. s + n - 1)
    <3>1. CASE i \in 1 .. a
      BY <1>4, <1>5, <3>1 DEF Positions
    <3>2. CASE i - a \in 1 .. n /\ V[i] = R[i - a]
      <4>1. V[i].pos = s + (i - a) - 1
        BY <1>1, <3>2
      <4> QED BY <3>2, <4>1
    <3> QED BY <1>7, <3>1, <3>2
  <2>2. ASSUME NEW i \in 1 .. a PROVE E[i].pos \in Positions(V)
    BY <1>4, <1>5 DEF Positions
  <2>3. ASSUME NEW q \in s .. s + n - 1 PROVE q \in Positions(V)
    <3>1. q - s + 1 \in 1 .. n /\ s + (q - s + 1) - 1 = q
      OBVIOUS
    <3>2. V[a + (q - s + 1)].pos = q /\ a + (q - s + 1) \in 1 .. a + n
      BY <1>1, <1>6, <3>1
    <3> QED BY <1>4, <3>2 DEF Positions
  <2> QED BY <1>4, <2>1, <2>2, <2>3 DEF Positions
<1>10. ASSUME Rising(E), \A p \in Positions(E) : n > 0 /\ s <= p => Contested(p)
       PROVE  Rising(V)
  <2> SUFFICES ASSUME NEW i \in 1 .. a + n, NEW j \in 1 .. a + n, i < j, V[j].pos <= V[i].pos
               PROVE  Contested(V[i].pos)
    BY <1>4 DEF Rising
  <2>1. CASE j \in 1 .. a
    <3>1. i \in 1 .. a
      BY <2>1
    <3> QED BY <1>4, <1>5, <1>10, <2>1, <3>1 DEF Rising
  <2>2. CASE i \in 1 .. a /\ j - a \in 1 .. n /\ V[j] = R[j - a]
    <3>1. V[i].pos \in Positions(E) /\ V[i].pos \in Nat
      <4>1. E[i] \in Token
        BY <1>4, <2>2, ElementOfSeq
      <4> QED BY <1>4, <1>5, <2>2, <4>1 DEF Positions, Token
    <3>2. V[j].pos = s + (j - a) - 1 /\ n > 0
      BY <1>1, <2>2
    <3>3. s <= V[i].pos
      BY <2>2, <3>1, <3>2
    <3> QED BY <1>10, <3>1, <3>2, <3>3
  <2>3. CASE i - a \in 1 .. n /\ V[i] = R[i - a] /\ j - a \in 1 .. n /\ V[j] = R[j - a]
    <3>1. V[i].pos = s + (i - a) - 1 /\ V[j].pos = s + (j - a) - 1
      BY <1>1, <2>3
    <3> QED BY <3>1
  <2>4. j \in 1 .. a \/ j > a
    OBVIOUS
  <2> QED BY <1>7, <2>1, <2>2, <2>3, <2>4
<1> QED BY <1>3, <1>8, <1>9, <1>10 DEF V, Appended

-----------------------------------------------------------------------------
(***************************************************************************)
(* What is emitted lies in the payload and covers it up to the cursor,     *)
(* which is at the end of the match emitted last, and this one starts      *)
(* latest of those behind.  A token in no match behind lies before all     *)
(* that is to come.                                                        *)
(***************************************************************************)
Covering ==
  /\ emitted \in Seq(Token) /\ todo \subseteq FindMatches(out)
  /\ at \in 1 .. Len(out) + 1
  /\ Positions(emitted) \subseteq DOMAIN out /\ 1 .. at - 1 \subseteq Positions(emitted)

Behind == FindMatches(out) \ todo

Cursor ==
  /\ \A x \in Behind : \A m \in todo : x.start <= m.start
  /\ \/ at = 1 /\ Behind = {}
     \/ \E y \in Behind : at = y.end /\ \A x \in Behind : x.start <= y.start

Past(p) ==
  \/ \E x \in Behind : Covers(x, p)
  \/ p < at /\ \A m \in todo : p < m.start

Meant(k) == (\E m \in FindMatches(out) : Covers(m, k.pos)) \/ OwnTag(k)

Tagging ==
  /\ Rising(emitted)
  /\ \A m \in Behind : \A p \in m.start .. m.end - 1 : SkillToken(p) \in Tokens(emitted)
  /\ \A k \in Tokens(emitted) : Meant(k)

TInv ==
  /\ pc # "done" => todo = {} /\ at = 1 /\ emitted = <<>> /\ ~ tagged
  /\ pc = "done" /\ ~ tagged =>
       Covering /\ Cursor /\ (\A p \in Positions(emitted) : Past(p)) /\ Tagging
  /\ tagged => todo = {}
  /\ EachTokenOnce

LEMMA TagInit == InitTags => TInv
  BY DEF InitTags, Init, TInv, EachTokenOnce

LEMMA NothingEmitted ==
  <<>> \in Seq(Token) /\ Positions(<<>>) = {} /\ Tokens(<<>>) = {} /\ Rising(<<>>)
  BY DEF Positions, Tokens, Rising

LEMMA ParsedTags == ASSUME IInv', TInv, ParseStep PROVE TInv'
<1>1. pc # "done" /\ at' = 1 /\ emitted' = <<>> /\ tagged' = tagged
      /\ todo' = IF pc' = "done" THEN FindMatches(out') ELSE {}
  BY DEF ParseStep, Parse, LeaveUnchanged, Rewrite, Find, NextKind, Searched, Resolve, Resolved,
         Emit, EmitRest, Collapse, TInv
<1>2. ~ tagged
  BY <1>1 DEF TInv
<1>3. Len(out') \in Nat
  BY LenProperties DEF IInv, Types
<1>4. CASE pc' = "done"
  <2>1. todo' = FindMatches(out') /\ at' - 1 = 0 /\ 1 .. at' - 1 = {} /\ Behind' = {}
    BY <1>1, <1>4 DEF Behind
  <2>2. Covering'
    BY <1>1, <1>3, <2>1, NothingEmitted DEF Covering
  <2>3. Cursor'
    BY <1>1, <2>1 DEF Cursor
  <2>4. Positions(emitted') = {} /\ Tokens(emitted') = {} /\ DOMAIN emitted' = {}
    BY <1>1, NothingEmitted
  <2>5. Tagging'
    BY <2>1, <2>4 DEF Tagging, Rising
  <2> QED BY <1>1, <1>2, <1>4, <2>2, <2>3, <2>4, <2>5 DEF TInv, EachTokenOnce
<1>5. CASE pc' # "done"
  BY <1>1, <1>2, <1>5 DEF TInv, EachTokenOnce
<1> QED BY <1>4, <1>5

LEMMA MatchRange ==
  ASSUME IInv
  PROVE  \A x \in FindMatches(out) :
           /\ x.start \in 1 .. Len(out) /\ x.end \in x.start + 1 .. Len(out) + 1
           /\ x.start \in Nat /\ x.end \in Nat /\ x.start < x.end
<1>1. out \in Seq(Atom) /\ Len(out) \in Nat
  BY LenProperties DEF IInv, Types
<1>2. ASSUME NEW x \in FindMatches(out)
      PROVE  x.start \in 1 .. Len(out) /\ x.end \in x.start + 1 .. Len(out) + 1
  BY <1>1, MatchInside
<1> QED BY <1>1, <1>2

(***************************************************************************)
(* A token that is emitted already and lies at the cursor or beyond is in  *)
(* a match that the one emitted last overlaps.                             *)
(***************************************************************************)
LEMMA BeyondCursor ==
  ASSUME IInv, Covering, Cursor, NEW p \in Nat, Past(p), at <= p
  PROVE  Contested(p)
<1>1. at \in Nat
  BY LenProperties DEF Covering, IInv, Types
<1>2. PICK x \in Behind : Covers(x, p)
  BY <1>1 DEF Past
<1>3. PICK y \in Behind : at = y.end /\ x.start <= y.start
  BY <1>2 DEF Cursor
<1>4. /\ x \in FindMatches(out) /\ y \in FindMatches(out)
      /\ x.start \in Nat /\ x.end \in Nat /\ y.start \in Nat /\ y.end \in Nat
      /\ x.start < x.end /\ y.start < y.end
  BY <1>2, <1>3, MatchRange DEF Behind
<1>5. p < x.end
  BY <1>2, <1>4 DEF Covers
<1>6. y # x /\ Overlap(x, y)
  BY <1>3, <1>4, <1>5 DEF Overlap
<1> QED BY <1>2, <1>4, <1>6 DEF Contested

(***************************************************************************)
(* A token that is emitted already and lies at the start of a match still  *)
(* to come or beyond is in a match that this one overlaps.                 *)
(***************************************************************************)
LEMMA BeyondMatch ==
  ASSUME IInv, Covering, Cursor, NEW m \in todo, NEW p \in Nat, Past(p), m.start <= p
  PROVE  Contested(p)
<1>1. /\ m \in FindMatches(out) /\ m.start \in Nat /\ m.end \in Nat /\ m.start < m.end
  BY MatchRange DEF Covering
<1>2. PICK x \in Behind : Covers(x, p)
  BY <1>1 DEF Past
<1>3. /\ x \in FindMatches(out) /\ x # m /\ x.start <= m.start
      /\ x.start \in Nat /\ x.end \in Nat
  BY <1>2, MatchRange DEF Behind, Cursor
<1>4. p < x.end
  BY <1>2, <1>3 DEF Covers
<1>5. Overlap(x, m)
  BY <1>1, <1>3, <1>4 DEF Overlap
<1> QED BY <1>1, <1>2, <1>3, <1>5 DEF Contested

(***************************************************************************)
(* One match: the text before it, if any, and the match.                   *)
(***************************************************************************)
LEMMA MatchEmitted == ASSUME IInv, TInv, EmitMatch PROVE TInv'
<1>1. PICK m \in todo :
        /\ \A x \in todo : m.start <= x.start
        /\ emitted' = emitted \o Plain(at, m.start) \o Inside(m)
        /\ at' = m.end /\ todo' = todo \ {m}
  BY DEF EmitMatch, AfterMatch
<1>2. /\ pc = "done" /\ ~ tagged /\ ~ tagged' /\ pc' = "done" /\ out' = out
      /\ Covering /\ Cursor /\ (\A p \in Positions(emitted) : Past(p)) /\ Tagging
  BY <1>1 DEF EmitMatch, vars, TInv
<1>3. PICK L \in Nat : L = Len(out) /\ DOMAIN out = 1 .. L /\ out \in Seq(Atom)
  BY LenProperties DEF IInv, Types
<1>4. \A x \in FindMatches(out) :
        x.start \in Nat /\ x.end \in Nat /\ x.start \in 1 .. L /\ x.end \in x.start + 1 .. L + 1
  BY <1>3, MatchRange
<1>5. m \in FindMatches(out)
  BY <1>2 DEF Covering
<1>6. PICK s \in 1 .. L, e \in 1 .. L + 1 : s = m.start /\ e = m.end /\ s < e
  BY <1>4, <1>5
<1>7. PICK c \in 1 .. L + 1 : c = at
  BY <1>2, <1>3 DEF Covering
<1> DEFINE E1 == emitted \o Plain(at, m.start)
           n1 == IF c <= s THEN s - c ELSE 0
<1>8. /\ n1 \in Nat /\ IsRun(Plain(at, m.start), c, n1)
      /\ \A k \in Tokens(Plain(at, m.start)) : OwnTag(k)
  <2>1. c \in Nat /\ s \in Nat /\ n1 \in Nat
    OBVIOUS
  <2>2. IsRun(Plain(c, s), c, n1) /\ \A k \in Tokens(Plain(c, s)) : OwnTag(k)
    BY <2>1, PlainRun
  <2> QED BY <1>6, <1>7, <2>1, <2>2
<1>9. /\ e - s \in Nat /\ IsRun(Inside(m), s, e - s)
      /\ Tokens(Inside(m)) = {SkillToken(p) : p \in s .. e - 1}
  BY <1>6, InsideRun
<1>10. emitted \in Seq(Token) /\ Positions(emitted) \subseteq 1 .. L
       /\ 1 .. c - 1 \subseteq Positions(emitted)
  BY <1>2, <1>3, <1>7 DEF Covering
<1>11. \A p \in Positions(emitted) : p \in Nat /\ Past(p) /\ (c <= p \/ s <= p => Contested(p))
  <2>1. ASSUME NEW p \in Positions(emitted) PROVE p \in Nat /\ Past(p)
    BY <1>2, <1>10
  <2>2. ASSUME NEW p \in Positions(emitted), c <= p PROVE Contested(p)
    BY <1>2, <1>7, <2>1, <2>2, BeyondCursor
  <2>3. ASSUME NEW p \in Positions(emitted), s <= p PROVE Contested(p)
    BY <1>2, <1>6, <2>1, <2>3, BeyondMatch
  <2> QED BY <2>1, <2>2, <2>3
<1>12. /\ E1 \in Seq(Token) /\ Rising(E1)
       /\ Tokens(E1) = Tokens(emitted) \cup Tokens(Plain(at, m.start))
       /\ Positions(E1) = Positions(emitted) \cup (c .. c + n1 - 1)
  <2>1. Rising(emitted) /\ \A p \in Positions(emitted) : n1 > 0 /\ c <= p => Contested(p)
    BY <1>2, <1>11 DEF Tagging
  <2> HIDE DEF n1
  <2>2. Appended(emitted, Plain(at, m.start), c, n1) /\ Rising(E1)
    BY <1>7, <1>8, <1>10, <2>1, RunAppended
  <2> QED BY <2>2 DEF Appended
<1>13. \A p \in c .. c + n1 - 1 : p < s /\ p \in 1 .. L
  BY <1>6, <1>7
<1>14. emitted' = E1 \o Inside(m)
  BY <1>1
<1> HIDE DEF E1
<1>15. /\ emitted' \in Seq(Token) /\ Rising(emitted')
       /\ Tokens(emitted') = Tokens(emitted) \cup Tokens(Plain(at, m.start))
                                \cup {SkillToken(p) : p \in s .. e - 1}
       /\ Positions(emitted') = Positions(emitted) \cup (c .. c + n1 - 1) \cup (s .. e - 1)
  <2>1. \A p \in Positions(E1) : e - s > 0 /\ s <= p => Contested(p)
    BY <1>6, <1>11, <1>12, <1>13
  <2>2. s + (e - s) - 1 = e - 1
    BY <1>6
  <2> HIDE DEF n1
  <2>3. PICK k \in Nat : k = e - s
    BY <1>9
  <2>4. s \in Nat /\ IsRun(Inside(m), s, k) /\ E1 \in Seq(Token) /\ Rising(E1)
        /\ \A p \in Positions(E1) : k > 0 /\ s <= p => Contested(p)
    BY <1>9, <1>12, <2>1, <2>3
  <2>5. Appended(E1, Inside(m), s, k) /\ Rising(E1 \o Inside(m))
    BY <2>4, RunAppended
  <2>6. Appended(E1, Inside(m), s, e - s) /\ Rising(E1 \o Inside(m))
    BY <2>3, <2>5
  <2> QED BY <1>9, <1>12, <1>14, <2>2, <2>6 DEF Appended
<1>16. Covering'
  <2>1. Positions(emitted') \subseteq 1 .. L
    <3>1. \A p \in s .. e - 1 : p \in 1 .. L
      BY <1>6
    <3> HIDE DEF n1
    <3> QED BY <1>10, <1>13, <1>15, <3>1
  <2>2. \A q \in 1 .. e - 1 : q \in (1 .. c - 1) \cup (c .. c + n1 - 1) \cup (s .. e - 1)
    BY <1>6, <1>7
  <2>3. 1 .. e - 1 \subseteq Positions(emitted')
    <3> HIDE DEF n1
    <3> QED BY <1>10, <1>15, <2>2
  <2> QED BY <1>1, <1>2, <1>3, <1>6, <1>15, <2>1, <2>3 DEF Covering
<1>17. /\ Behind' = Behind \cup {m} /\ FindMatches(out') = FindMatches(out)
       /\ \A p : Contested(p)' = Contested(p)
       /\ \A k : OwnTag(k)' = OwnTag(k)
  <2>1. Behind' = Behind \cup {m}
    BY <1>1, <1>2, <1>5 DEF Behind
  <2> QED BY <1>2, <2>1 DEF Contested, OwnTag, BaseTag
<1>18. \A x \in Behind : x.start <= m.start
  BY <1>2 DEF Cursor
<1>19. Cursor'
  <2>1. \A x \in Behind' : \A y \in todo' : x.start <= y.start
    BY <1>1, <1>2, <1>17 DEF Cursor
  <2>2. m \in Behind' /\ at' = m.end /\ \A x \in Behind' : x.start <= m.start
    BY <1>1, <1>6, <1>17, <1>18
  <2> QED BY <2>1, <2>2 DEF Cursor
<1>20. \A p \in Positions(emitted') : Past(p)'
  <2>1. ASSUME NEW p \in Positions(emitted) PROVE Past(p)'
    <3>1. CASE \E x \in Behind : Covers(x, p)
      BY <1>17, <3>1 DEF Past, Covers
    <3>2. CASE p < at /\ \A y \in todo : p < y.start
      <4>1. p < s /\ p < e
        BY <1>6, <1>11, <2>1, <3>2
      <4> QED BY <1>1, <1>6, <3>2, <4>1 DEF Past
    <3> QED BY <1>11, <2>1, <3>1, <3>2 DEF Past
  <2>2. ASSUME NEW p \in c .. c + n1 - 1 PROVE Past(p)'
    <3>1. p < s /\ p \in Nat
      BY <1>13, <2>2
    <3>2. p < e
      BY <1>6, <3>1
    <3>3. \A y \in todo' : p < y.start
      <4>1. \A y \in todo : s <= y.start /\ y.start \in Nat
        BY <1>1, <1>2, <1>4, <1>6 DEF Covering
      <4> QED BY <1>1, <3>1, <4>1
    <3> QED BY <1>1, <1>6, <3>2, <3>3 DEF Past
  <2>3. ASSUME NEW p \in s .. e - 1 PROVE Past(p)'
    BY <1>6, <1>17, <2>3 DEF Past, Covers
  <2> HIDE DEF n1
  <2> QED BY <1>15, <2>1, <2>2, <2>3
<1>21. Tagging'
  <2>1. Rising(emitted)'
    BY <1>15, <1>17 DEF Rising
  <2>2. ASSUME NEW x \in Behind', NEW p \in x.start .. x.end - 1
        PROVE  SkillToken(p) \in Tokens(emitted')
    <3>1. CASE x = m
      BY <1>6, <1>15, <2>2, <3>1
    <3>2. CASE x \in Behind
      BY <1>2, <1>15, <2>2, <3>2 DEF Tagging
    <3> QED BY <1>17, <2>2, <3>1, <3>2
  <2>3. ASSUME NEW k \in Tokens(emitted') PROVE Meant(k)'
    <3>1. CASE k \in Tokens(emitted)
      BY <1>2, <1>17, <3>1 DEF Tagging, Meant
    <3>2. CASE k \in Tokens(Plain(at, m.start))
      BY <1>8, <1>17, <3>2 DEF Meant
    <3>3. CASE k \in {SkillToken(p) : p \in s .. e - 1}
      <4>1. k.pos \in s .. e - 1
        BY <3>3 DEF SkillToken
      <4> QED BY <1>5, <1>6, <1>17, <4>1 DEF Meant, Covers
    <3> QED BY <1>15, <2>3, <3>1, <3>2, <3>3
  <2> QED BY <2>1, <2>2, <2>3 DEF Tagging
<1> QED BY <1>1, <1>2, <1>16, <1>19, <1>20, <1>21 DEF TInv, EachTokenOnce

(***************************************************************************)
(* The rest of the payload, behind the last match.                         *)
(***************************************************************************)
LEMMA LastEmitted == ASSUME IInv, TInv, EmitLast PROVE TInv'
<1>1. /\ pc = "done" /\ ~ tagged /\ pc' = "done" /\ out' = out /\ todo = {} /\ todo' = {} /\ tagged'
      /\ emitted' = emitted \o Plain(at, Len(out) + 1)
      /\ Covering /\ Cursor /\ (\A p \in Positions(emitted) : Past(p)) /\ Tagging
  BY DEF EmitLast, vars, TInv
<1>2. PICK L \in Nat : L = Len(out) /\ DOMAIN out = 1 .. L /\ out \in Seq(Atom)
  BY LenProperties DEF IInv, Types
<1>3. PICK c \in 1 .. L + 1 : c = at
  BY <1>1, <1>2 DEF Covering
<1> DEFINE n == (L + 1) - c
<1>4. /\ n \in Nat /\ c + n - 1 = L /\ IsRun(Plain(at, Len(out) + 1), c, n)
      /\ \A k \in Tokens(Plain(at, Len(out) + 1)) : OwnTag(k)
  <2>1. c \in Nat /\ L + 1 \in Nat /\ c <= L + 1
    OBVIOUS
  <2>2. /\ IsRun(Plain(c, L + 1), c, IF c <= L + 1 THEN (L + 1) - c ELSE 0)
        /\ \A k \in Tokens(Plain(c, L + 1)) : OwnTag(k)
    BY <2>1, PlainRun
  <2> QED BY <1>2, <1>3, <2>1, <2>2
<1> HIDE DEF n
<1>5. emitted \in Seq(Token) /\ Positions(emitted) \subseteq 1 .. L
  BY <1>1, <1>2 DEF Covering
<1>6. ASSUME NEW p \in Positions(emitted), c <= p PROVE Contested(p)
  <2>1. p \in Nat /\ Past(p)
    BY <1>1, <1>5, <1>6
  <2> QED BY <1>1, <1>3, <1>6, <2>1, BeyondCursor
<1>7. /\ Rising(emitted') /\ Positions(emitted') = Positions(emitted) \cup (c .. L)
      /\ Tokens(emitted') = Tokens(emitted) \cup Tokens(Plain(at, Len(out) + 1))
  <2>1. Rising(emitted) /\ \A p \in Positions(emitted) : n > 0 /\ c <= p => Contested(p)
    BY <1>1, <1>6 DEF Tagging
  <2>2. /\ Appended(emitted, Plain(at, Len(out) + 1), c, n)
        /\ Rising(emitted \o Plain(at, Len(out) + 1))
    BY <1>3, <1>4, <1>5, <2>1, RunAppended
  <2> QED BY <1>1, <1>4, <2>2 DEF Appended
<1>8. Positions(emitted') = DOMAIN out
  <2>1. 1 .. L = (1 .. c - 1) \cup (c .. L)
    BY <1>3
  <2> QED BY <1>1, <1>2, <1>3, <1>7, <2>1 DEF Covering
<1>9. Behind = FindMatches(out)
  BY <1>1 DEF Behind
<1>10. /\ FindMatches(out') = FindMatches(out)
       /\ \A p : Contested(p)' = Contested(p)
       /\ \A k : OwnTag(k)' = OwnTag(k)
  BY <1>1 DEF Contested, OwnTag, BaseTag
<1>11. EachTokenOnce'
  <2>1. {emitted'[i].pos : i \in DOMAIN emitted'} = DOMAIN out'
    BY <1>1, <1>8 DEF Positions
  <2>2. \A i, j \in DOMAIN emitted' :
          i < j /\ emitted'[j].pos <= emitted'[i].pos => Contested(emitted'[i].pos)
    BY <1>7 DEF Rising
  <2>3. ASSUME NEW m \in FindMatches(out), NEW p \in m.start .. m.end - 1
        PROVE  \E i \in DOMAIN emitted' : emitted'[i] = [pos |-> p, tag |-> "skill_body"]
    <3>1. SkillToken(p) \in Tokens(emitted')
      BY <1>1, <1>7, <1>9 DEF Tagging
    <3> QED BY <3>1 DEF Tokens, SkillToken
  <2>4. ASSUME NEW i \in DOMAIN emitted'
        PROVE  (\E m \in FindMatches(out) : Covers(m, emitted'[i].pos)) \/ OwnTag(emitted'[i])
    <3>1. emitted'[i] \in Tokens(emitted')
      BY DEF Tokens
    <3> QED BY <1>1, <1>4, <1>7, <3>1 DEF Tagging, Meant
  <2>5. \A i \in DOMAIN emitted' :
          \/ \E m \in FindMatches(out') : Covers(m, emitted'[i].pos)
          \/ emitted'[i].tag = IF out'[emitted'[i].pos] = Marker THEN "dynamic" ELSE BaseTag'
    BY <1>1, <2>4 DEF OwnTag, BaseTag
  <2> QED BY <1>10, <2>1, <2>2, <2>3, <2>5 DEF EachTokenOnce, Covers
<1> QED BY <1>1, <1>11 DEF TInv

LEMMA TagStep == ASSUME IInv, IInv', TInv, [NextTags]_<<vars, tagVars>> PROVE TInv'
<1>1. CASE ParseStep
  BY <1>1, ParsedTags
<1>2. CASE EmitMatch
  BY <1>2, MatchEmitted
<1>3. CASE EmitLast
  BY <1>3, LastEmitted
<1>4. CASE SendAgain
  BY <1>4 DEF SendAgain, Replay, TInv, EachTokenOnce
<1>5. CASE UNCHANGED <<vars, tagVars>>
  <2>1. UNCHANGED <<pc, out, todo, at, emitted, tagged>>
    BY <1>5 DEF vars, tagVars
  <2>2. /\ Behind' = Behind /\ BaseTag' = BaseTag /\ FindMatches(out') = FindMatches(out)
        /\ \A p : Contested(p)' = Contested(p)
        /\ \A k : OwnTag(k)' = OwnTag(k)
    BY <2>1 DEF Behind, Contested, OwnTag, BaseTag
  <2>3. EachTokenOnce'
    BY <2>1, <2>2 DEF TInv, EachTokenOnce, Covers
  <2>4. (Covering => Covering') /\ (Cursor => Cursor')
        /\ \A p : Past(p) => Past(p)'
    BY <2>1, <2>2 DEF Covering, Cursor, Past, Covers
  <2>5. Tagging => Tagging'
    BY <2>1, <2>2 DEF Tagging, Rising, Meant, Covers
  <2> QED BY <2>1, <2>3, <2>4, <2>5 DEF TInv
<1> QED BY <1>1, <1>2, <1>3, <1>4, <1>5 DEF NextTags

(***************************************************************************)
(* No token of a payload is left out, each token of a skill is tagged as   *)
(* one and each outside of skills as what it is, and tokens are emitted in *)
(* order and once but for those in a match that another overlaps: for all  *)
(* payloads, skills and anchors, however often a payload is sent again.    *)
(***************************************************************************)
THEOREM TokensOnce == SpecTags => []EachTokenOnce
<1>1. InitTags => IInv /\ TInv
  BY IInvInit, TagInit DEF InitTags
<1>2. IInv /\ TInv /\ [NextTags]_<<vars, tagVars>> => IInv' /\ TInv'
  BY TagsStep, IInvStep, TagStep
<1>3. TInv => EachTokenOnce
  BY DEF TInv
<1> QED BY <1>1, <1>2, <1>3, PTL DEF SpecTags
=============================================================================
