------------------------ MODULE ResolveSurfacesProofs ------------------------
(***************************************************************************)
(* Theorems about ResolveSurfaces, for every set of documents and labels,  *)
(* every number of attempts and of rewrites.                               *)
(***************************************************************************)
EXTENDS ResolveSurfaces, ListProofs

(* Both histories hold what is there now, and between the two reads the    *)
(* epic's history holds what was read.                                     *)
Remembered ==
  /\ epic \in epics /\ project \in projects
  /\ pc = "project" => inProject /\ read \in epics
  /\ pc # "done" => result.reason = "none"

(* What was answered is what a text of each history says, the project's    *)
(* being empty for an epic without one.                                    *)
Owns == IF inProject THEN projects ELSE {<<>>}
Decided ==
  pc = "done" /\ result.reason # "unreachable" =>
    \E override \in epics, own \in Owns : result = Decide(override, own)

ResolveInv == TypeOK /\ Remembered /\ Decided

-----------------------------------------------------------------------------
(* What IsText says of each line.                                          *)
LEMMA TextLines ==
  ASSUME NEW text, IsText(text)
  PROVE  /\ Len(text) \in Nat /\ DOMAIN text = 1..Len(text)
         /\ \A i \in 1..Len(text) :
              /\ text[i].key \in Keys \cup {"comment", "blank", "junk"}
              /\ text[i].key \in {"surface", "status"} => Len(text[i].value) = 1
              /\ text[i].value # <<>> /\ text[i].value \in Seq(Range(text[i].value))
<1>. DEFINE V == Range(text)
            n == Len(text)
<1>1. n \in Nat /\ DOMAIN text = 1..n /\ \A i \in 1..n : text[i] \in V
  <2>1. text \in Seq(V)
    BY DEF IsText
  <2>. HIDE DEF V
  <2>. QED
    BY <2>1, LenProperties, ElementOfSeq
<1>2. \A line \in V :
        /\ line.key \in Keys \cup {"comment", "blank", "junk"}
        /\ line.key \in {"surface", "status"} => Len(line.value) = 1
        /\ line.value # <<>> /\ line.value \in Seq(Range(line.value))
  BY DEF IsText
<1>. HIDE DEF V, n
<1>. QED
  BY <1>1, <1>2 DEF n

-----------------------------------------------------------------------------
(* A record as the parser meets it: which of its lines are among the first *)
(* i, and whether one of those has closed it.                              *)
Fence == {"surface", "blank"}
Fenced(text, s, i) == \E k \in s + 1..i : text[k].key \in Fence
Held(text, s, i) == {j \in s..i : text[j].key # "comment" /\ ~Fenced(text, s, j)}
FieldsOf(text, held) ==
  [key \in {text[j].key : j \in held} |-> text[CHOOSE j \in held : text[j].key = key].value]
Closed(text, i) == {s \in Starts(text) : s <= i /\ Fenced(text, s, i)}
Open(text, i) == {s \in Starts(text) : s <= i /\ ~Fenced(text, s, i)}
Lawful(text, s, i) ==
  \A j, k \in Held(text, s, i) :
    text[j].key \in Keys /\ (text[j].key = text[k].key => j = k)

(* What is held at the end of the text is the record's span.               *)
LEMMA SpanIsHeld ==
  ASSUME NEW text, IsText(text), NEW s \in 1..Len(text)
  PROVE  /\ Span(text, s) = Held(text, s, Len(text))
         /\ FieldsAt(text, s) = FieldsOf(text, Held(text, s, Len(text)))
<1>. DEFINE n == Len(text)
            fences == {j \in DOMAIN text : j > s /\ text[j].key \in {"surface", "blank"}}
<1>1. n \in Nat /\ DOMAIN text = 1..n
  BY TextLines
<1>. HIDE DEF n
<1>2. fences = {j \in 1..n : j > s /\ text[j].key \in Fence}
  BY <1>1 DEF Fence
<1>3. Span(text, s) = {j \in s..n : text[j].key # "comment" /\ \A k \in fences : j < k}
  BY DEF Span, n
<1>. HIDE DEF fences
<1>4. ASSUME NEW j \in s..n PROVE (\A k \in fences : j < k) <=> ~Fenced(text, s, j)
  BY <1>1, <1>2 DEF Fenced, n
<1>5. Span(text, s) = Held(text, s, n)
  BY <1>3, <1>4 DEF Held
<1>. QED
  BY <1>5 DEF n, FieldsAt, FieldsOf

LEMMA StartsAreLines ==
  ASSUME NEW text, IsText(text)
  PROVE  Starts(text) = {s \in 1..Len(text) : text[s].key = "surface"}
  BY TextLines DEF Starts

(* One line more.                                                          *)
LEMMA HeldByStep ==
  ASSUME NEW text, NEW i \in Nat, NEW s \in 1..i
  PROVE  /\ Fenced(text, s, i + 1) <=> Fenced(text, s, i) \/ text[i + 1].key \in Fence
         /\ Held(text, s, i + 1) =
              IF text[i + 1].key = "comment" \/ Fenced(text, s, i + 1) THEN Held(text, s, i)
              ELSE Held(text, s, i) \cup {i + 1}
<1>1. \A k : k \in s + 1..i + 1 <=> k \in s + 1..i \/ k = i + 1
  OBVIOUS
<1>2. \A k : k \in s..i + 1 <=> k \in s..i \/ k = i + 1
  OBVIOUS
<1>3. Fenced(text, s, i + 1) <=> Fenced(text, s, i) \/ text[i + 1].key \in Fence
  BY <1>1 DEF Fenced
<1>4. Held(text, s, i + 1) =
        IF text[i + 1].key = "comment" \/ Fenced(text, s, i + 1) THEN Held(text, s, i)
        ELSE Held(text, s, i) \cup {i + 1}
  BY <1>2 DEF Held
<1>. QED
  BY <1>3, <1>4

LEMMA HeldFirst ==
  ASSUME NEW text, NEW s \in Nat, text[s].key = "surface"
  PROVE  /\ Held(text, s, s) = {s} /\ ~Fenced(text, s, s)
<1>1. s..s = {s} /\ s + 1..s = {}
  OBVIOUS
<1>. QED
  BY <1>1 DEF Held, Fenced

(* What is held of a closed record is all of it.                           *)
LEMMA HeldWhole ==
  ASSUME NEW text, IsText(text), NEW s \in 1..Len(text), NEW i \in s..Len(text),
         i = Len(text) \/ Fenced(text, s, i + 1)
  PROVE  Held(text, s, i) = Held(text, s, Len(text))
<1>. DEFINE n == Len(text)
<1>1. n \in Nat
  BY TextLines
<1>. HIDE DEF n
<1>2. CASE i = n
  BY <1>2 DEF n
<1>3. CASE Fenced(text, s, i + 1) /\ i # n
  <2>1. \A j \in i + 1..n : Fenced(text, s, j)
    BY <1>1, <1>3 DEF Fenced, n
  <2>2. \A j \in s..n : j \notin s..i => j \in i + 1..n
    BY <1>1 DEF n
  <2>3. \A j \in s..i : j \in s..n
    BY <1>1 DEF n
  <2>. QED
    BY <2>1, <2>2, <2>3 DEF Held, n
<1>. QED
  BY <1>2, <1>3 DEF n

-----------------------------------------------------------------------------
(* The parser's state after i lines.                                       *)
RecordAt(text, s) == RecordOf(FieldsAt(text, s))
AllRecords(text) == {RecordAt(text, s) : s \in Starts(text)}
Holds(records, text, starts) ==
  /\ records \in Seq(AllRecords(text))
  /\ \E at \in [1..Len(records) -> starts] :
       /\ \A a, b \in 1..Len(records) : at[a] = at[b] => a = b
       /\ \A s \in starts : \E a \in 1..Len(records) : at[a] = s
       /\ \A a \in 1..Len(records) : records[a] = RecordAt(text, at[a])

IsParser(p) ==
  p = [records |-> p.records, current |-> p.current, error |-> p.error] /\ p.error \in BOOLEAN

(* After i lines: no line is left out, every record so far has known keys  *)
(* that are not repeated, each closed one is valid and one of those the    *)
(* parser made, and its current fields are those of the one that is open.  *)
Covered(text, i) ==
  \A j \in 1..i : \/ text[j].key \in {"comment", "blank"}
                  \/ \E s \in Starts(text) : j \in Held(text, s, Len(text))
Sound(text, p, i) ==
  /\ Covered(text, i)
  /\ \A s \in Starts(text) : s <= i => Lawful(text, s, i)
  /\ \A s \in Closed(text, i) : IsValid(FieldsAt(text, s))
  /\ Holds(p.records, text, Closed(text, i))
  /\ \A s \in Open(text, i) : p.current = FieldsOf(text, Held(text, s, i))
  /\ Open(text, i) = {} => DOMAIN p.current = {}

Reading(text, i, p) ==
  /\ IsParser(p)
  /\ p.error => ~WellFormed(text)
  /\ ~p.error => Sound(text, p, i)

(* The record that closes becomes one more of the parser's.                *)
LEMMA HoldsMore ==
  ASSUME NEW text, NEW records, NEW starts \in SUBSET Starts(text), Holds(records, text, starts),
         NEW s \in Starts(text) \ starts
  PROVE  Holds(Append(records, RecordAt(text, s)), text, starts \cup {s})
<1>. DEFINE n == Len(records)
            V == AllRecords(text)
            R == RecordAt(text, s)
            more == Append(records, R)
<1>1. records \in Seq(V)
  BY DEF Holds
<1>2. R \in V
  BY DEF AllRecords
<1>. HIDE DEF V, R
<1>3. /\ n \in Nat /\ more \in Seq(V) /\ Len(more) = n + 1 /\ more[n + 1] = R
      /\ \A a \in 1..n : more[a] = records[a]
  BY <1>1, <1>2, LenProperties, AppendProperties
<1>. HIDE DEF n, more
<1>4. PICK at \in [1..n -> starts] :
        /\ \A a, b \in 1..n : at[a] = at[b] => a = b
        /\ \A t \in starts : \E a \in 1..n : at[a] = t
        /\ \A a \in 1..n : records[a] = RecordAt(text, at[a])
  BY DEF Holds, n
<1>. DEFINE to == [a \in 1..n + 1 |-> IF a = n + 1 THEN s ELSE at[a]]
<1>5. \A a \in 1..n + 1 : a # n + 1 => a \in 1..n
  BY <1>3
<1>6. to \in [1..n + 1 -> starts \cup {s}]
  BY <1>5
<1>7. \A a, b \in 1..n + 1 : to[a] = to[b] => a = b
  BY <1>4, <1>5
<1>8. \A t \in starts \cup {s} : \E a \in 1..n + 1 : to[a] = t
  BY <1>3, <1>4
<1>9. \A a \in 1..n + 1 : more[a] = RecordAt(text, to[a])
  BY <1>3, <1>4, <1>5 DEF R
<1>. HIDE DEF to
<1>10. /\ to \in [1..Len(more) -> starts \cup {s}]
       /\ \A a, b \in 1..Len(more) : to[a] = to[b] => a = b
       /\ \A t \in starts \cup {s} : \E a \in 1..Len(more) : to[a] = t
       /\ \A a \in 1..Len(more) : more[a] = RecordAt(text, to[a])
  BY <1>3, <1>6, <1>7, <1>8, <1>9
<1>11. Holds(more, text, starts \cup {s})
  BY <1>3, <1>10 DEF Holds, V
<1>. QED
  BY <1>11 DEF more, R

LEMMA SetFields ==
  ASSUME NEW p, NEW X, p = [records |-> p.records, current |-> p.current, error |-> p.error]
  PROVE  /\ [p EXCEPT !.records = X] = [records |-> X, current |-> p.current, error |-> p.error]
         /\ [p EXCEPT !.current = X] = [records |-> p.records, current |-> X, error |-> p.error]
         /\ [p EXCEPT !.error = X] = [records |-> p.records, current |-> p.current, error |-> X]
<1>1. [p EXCEPT !.records = X] = [records |-> X, current |-> p.current, error |-> p.error]
  BY Z3
<1>2. [p EXCEPT !.current = X] = [records |-> p.records, current |-> X, error |-> p.error]
  BY Z3
<1>3. [p EXCEPT !.error = X] = [records |-> p.records, current |-> p.current, error |-> X]
  BY Z3
<1>. QED
  BY <1>1, <1>2, <1>3

(* finish() by cases: nothing open, fields it rejects, fields it takes.    *)
LEMMA FinishBy ==
  ASSUME NEW p, IsParser(p), ~p.error
  PROVE  /\ DOMAIN p.current = {} => Finish(p) = p
         /\ DOMAIN p.current # {} /\ ~IsValid(p.current) =>
              IsParser(Finish(p)) /\ Finish(p).error
         /\ DOMAIN p.current # {} /\ IsValid(p.current) =>
              /\ IsParser(Finish(p)) /\ ~Finish(p).error
              /\ Finish(p).records = Append(p.records, RecordOf(p.current))
              /\ Finish(p).current = <<>>
<1>. DEFINE more == Append(p.records, RecordOf(p.current))
            none == <<>>
<1>1. p = [records |-> p.records, current |-> p.current, error |-> FALSE]
  BY DEF IsParser
<1>2. CASE DOMAIN p.current # {} /\ ~IsValid(p.current)
  <2>1. Finish(p) = [p EXCEPT !.error = TRUE]
    BY <1>2 DEF Finish, Thrown
  <2>2. Finish(p) = [records |-> p.records, current |-> p.current, error |-> TRUE]
    BY <1>1, <2>1
  <2>. QED
    BY <1>2, <2>2 DEF IsParser
<1>3. CASE DOMAIN p.current # {} /\ IsValid(p.current)
  <2>1. Finish(p) = [[p EXCEPT !.records = more] EXCEPT !.current = none]
    BY <1>3 DEF Finish
  <2>. HIDE DEF more, none
  <2>2. [p EXCEPT !.records = more] = [records |-> more, current |-> p.current, error |-> FALSE]
    BY <1>1, SetFields, Zenon DEF IsParser
  <2>3. Finish(p) = [records |-> more, current |-> none, error |-> FALSE]
    <3>. DEFINE r == [records |-> more, current |-> p.current, error |-> FALSE]
    <3>1. Finish(p) = [r EXCEPT !.current = none]
      BY <2>1, <2>2, Zenon
    <3>2. r = [records |-> r.records, current |-> r.current, error |-> r.error]
          /\ r.records = more /\ r.error = FALSE
      OBVIOUS
    <3>. HIDE DEF r
    <3>. QED
      BY <3>1, <3>2, SetFields, Zenon
  <2>4. IsParser(Finish(p)) /\ ~Finish(p).error /\ Finish(p).records = more /\ Finish(p).current = none
    BY <2>3 DEF IsParser
  <2>. QED
    BY <1>3, <2>4 DEF more, none
<1>. QED
  BY <1>2, <1>3 DEF Finish

LEMMA NoFields == DOMAIN <<>> = {}
<1>1. <<>> \in Seq({}) /\ 1..Len(<<>>) = {}
  BY EmptySeq
<1>. QED
  BY <1>1, LenProperties

(* Where a record ends, the parser has read all of those that began.       *)
Begun(text, i) == {s \in Starts(text) : s <= i}
LEMMA Finished ==
  ASSUME NEW text, IsText(text), NEW i \in 0..Len(text), NEW p, Reading(text, i, p), ~p.error,
         i = Len(text) \/ text[i + 1].key \in Fence
  PROVE  LET q == Finish(p)
         IN  /\ IsParser(q)
             /\ q.error => ~WellFormed(text)
             /\ ~q.error => /\ DOMAIN q.current = {}
                            /\ \A s \in Begun(text, i) : IsValid(FieldsAt(text, s))
                            /\ Holds(q.records, text, Begun(text, i))
<1>. DEFINE n == Len(text)
            q == Finish(p)
<1>1. n \in Nat /\ i \in Nat /\ i <= n
  BY TextLines
<1>. HIDE DEF n
<1>2. IsParser(p) /\ Sound(text, p, i)
  BY DEF Reading
<1>3. \A s \in Starts(text) : s \in 1..n /\ text[s].key = "surface"
  BY StartsAreLines DEF n
<1>4. CASE Open(text, i) = {}
  <2>1. q = p /\ DOMAIN p.current = {}
    BY <1>2, <1>4, FinishBy DEF Sound
  <2>2. Begun(text, i) = Closed(text, i)
    BY <1>4 DEF Begun, Closed, Open
  <2>. QED
    BY <1>2, <2>1, <2>2 DEF Sound
<1>5. CASE Open(text, i) # {}
  <2>1. PICK s \in Open(text, i) : TRUE
    BY <1>5
  <2>2. s \in Starts(text) /\ s \in 1..n /\ i \in s..n /\ ~Fenced(text, s, i) /\ s <= i
    BY <1>1, <1>3 DEF Open
  <2>3. Held(text, s, i) = Held(text, s, n)
    <3>1. CASE i = n
      BY <3>1
    <3>2. CASE i # n
      <4>1. Fenced(text, s, i + 1)
        <5>1. i + 1 \in s + 1..i + 1 /\ text[i + 1].key \in Fence
          BY <1>1, <2>2, <3>2 DEF n
        <5>. QED
          BY <5>1 DEF Fenced
      <4>. QED
        BY <2>2, <4>1, HeldWhole DEF n
    <3>. QED
      BY <3>1, <3>2
  <2>4. p.current = FieldsAt(text, s)
    BY <1>2, <2>1, <2>2, <2>3, SpanIsHeld DEF Sound, n
  <2>5. DOMAIN p.current # {}
    <3>1. s \in Held(text, s, i)
      <4>1. s \in s..i /\ s + 1..s = {}
        BY <1>1, <2>2
      <4>. QED
        BY <1>3, <2>2, <4>1 DEF Held, Fenced
    <3>2. DOMAIN p.current = {text[j].key : j \in Held(text, s, i)}
      BY <1>2, <2>1 DEF Sound, FieldsOf
    <3>. QED
      BY <3>1, <3>2
  <2>6. \A t \in Starts(text) : t < s => Fenced(text, t, i)
    BY <1>1, <1>3, <2>2 DEF Fenced, Fence
  <2>7. \A t \in Starts(text) : s < t /\ t <= i => FALSE
    BY <1>1, <1>3, <2>2 DEF Fenced, Fence
  <2>8. Begun(text, i) = Closed(text, i) \cup {s} /\ s \notin Closed(text, i)
    <3>1. \A t \in Starts(text) : t <= i /\ ~Fenced(text, t, i) => t = s
      BY <1>3, <2>2, <2>6, <2>7
    <3>. QED
      BY <2>2, <3>1 DEF Begun, Closed
  <2>9. CASE ~IsValid(p.current)
    <3>1. IsParser(q) /\ q.error
      BY <1>2, <2>5, <2>9, FinishBy
    <3>2. ~WellFormed(text)
      BY <2>2, <2>4, <2>9 DEF WellFormed
    <3>. QED
      BY <3>1, <3>2
  <2>10. CASE IsValid(p.current)
    <3>1. /\ IsParser(q) /\ ~q.error /\ q.records = Append(p.records, RecordAt(text, s))
          /\ q.current = <<>>
      BY <1>2, <2>4, <2>5, <2>10, FinishBy DEF RecordAt
    <3>2. Holds(p.records, text, Closed(text, i)) /\ Closed(text, i) \in SUBSET Starts(text)
      BY <1>2 DEF Sound, Closed
    <3>3. Holds(q.records, text, Begun(text, i))
      BY <2>2, <2>8, <3>1, <3>2, HoldsMore
    <3>4. DOMAIN q.current = {}
      BY <3>1, NoFields
    <3>5. \A t \in Begun(text, i) : IsValid(FieldsAt(text, t))
      BY <1>2, <2>4, <2>8, <2>10 DEF Sound
    <3>. QED
      BY <3>1, <3>3, <3>4, <3>5
  <2>. QED
    BY <2>9, <2>10
<1>. QED
  BY <1>4, <1>5

-----------------------------------------------------------------------------
(* The fields of lines with different keys: each line's, and one line more. *)
LEMMA FieldIs ==
  ASSUME NEW text, NEW held, \A j, k \in held : text[j].key = text[k].key => j = k,
         NEW j \in held
  PROVE  /\ text[j].key \in DOMAIN FieldsOf(text, held)
         /\ FieldsOf(text, held)[text[j].key] = text[j].value
<1>1. (CHOOSE k \in held : text[k].key = text[j].key) = j
  OBVIOUS
<1>. QED
  BY <1>1 DEF FieldsOf

Extends(text, held, i, more) ==
  /\ DOMAIN FieldsOf(text, more) = DOMAIN FieldsOf(text, held) \cup {text[i].key}
  /\ \A key \in DOMAIN FieldsOf(text, held) :
       FieldsOf(text, more)[key] = FieldsOf(text, held)[key]
  /\ FieldsOf(text, more)[text[i].key] = text[i].value

LEMMA FieldsMore ==
  ASSUME NEW text, NEW held, \A j, k \in held : text[j].key = text[k].key => j = k,
         NEW i, \A j \in held : text[j].key # text[i].key,
         NEW more, more = held \cup {i}
  PROVE  Extends(text, held, i, more)
<1>. DEFINE F == FieldsOf(text, held)
            G == FieldsOf(text, more)
<1>1. \A j, k \in more : text[j].key = text[k].key => j = k
  OBVIOUS
<1>2. DOMAIN F = {text[j].key : j \in held} /\ DOMAIN G = {text[j].key : j \in more}
  BY DEF FieldsOf
<1>3. \A j \in held : F[text[j].key] = text[j].value
  BY FieldIs
<1>4. \A j \in more : G[text[j].key] = text[j].value
  BY <1>1, FieldIs
<1>. HIDE DEF F, G
<1>5. DOMAIN G = DOMAIN F \cup {text[i].key}
  BY <1>2
<1>6. \A key \in DOMAIN F : G[key] = F[key]
  BY <1>2, <1>3, <1>4
<1>. QED
  BY <1>4, <1>5, <1>6 DEF F, G, Extends

(* At most one record is open; which one, after one line more.             *)
LEMMA OpenIsOne ==
  ASSUME NEW text, IsText(text), NEW i \in 0..Len(text), NEW s \in Open(text, i),
         NEW t \in Open(text, i)
  PROVE  s = t
<1>1. \A x \in Open(text, i) :
         /\ x \in 1..Len(text) /\ text[x].key \in Fence /\ x <= i /\ ~Fenced(text, x, i)
  BY StartsAreLines DEF Open, Fence
<1>2. Len(text) \in Nat
  BY TextLines
<1>3. ASSUME NEW x \in Open(text, i), NEW y \in Open(text, i), x < y PROVE FALSE
  <2>1. y \in x + 1..i
    BY <1>1, <1>2, <1>3
  <2>. QED
    BY <1>1, <2>1 DEF Fenced
<1>4. s \in Int /\ t \in Int
  BY <1>1, <1>2
<1>. QED
  BY <1>3, <1>4

LEMMA OpenByStep ==
  ASSUME NEW text, IsText(text), NEW i \in 0..Len(text) - 1
  PROVE  /\ text[i + 1].key \notin Fence =>
              Closed(text, i + 1) = Closed(text, i) /\ Open(text, i + 1) = Open(text, i)
         /\ text[i + 1].key \in Fence =>
              /\ Closed(text, i + 1) = Begun(text, i)
              /\ Open(text, i + 1) = IF text[i + 1].key = "surface" THEN {i + 1} ELSE {}
         /\ \A s \in Starts(text) : s <= i + 1 => s \in 1..i \/ (s = i + 1 /\ text[s].key = "surface")
<1>1. Len(text) \in Nat /\ i \in Nat /\ i + 1 \in 1..Len(text)
  BY TextLines
<1>2. \A s \in Starts(text) : s \in 1..Len(text) /\ text[s].key = "surface"
  BY StartsAreLines
<1>3. \A s \in Starts(text) : s <= i + 1 <=> s \in 1..i \/ (s = i + 1 /\ text[i + 1].key = "surface")
  BY <1>1, <1>2
<1>4. \A s \in 1..i : Fenced(text, s, i + 1) <=> Fenced(text, s, i) \/ text[i + 1].key \in Fence
  BY <1>1, HeldByStep
<1>5. \A s \in 1..i : s <= i
  BY <1>1
<1>6. \A s \in Starts(text) : s <= i => s \in 1..i
  BY <1>1, <1>2
<1>7. CASE text[i + 1].key \notin Fence
  <2>1. text[i + 1].key # "surface"
    BY <1>7 DEF Fence
  <2>. QED
    BY <1>3, <1>4, <1>5, <1>6, <1>7, <2>1, <1>2 DEF Closed, Open
<1>8. CASE text[i + 1].key \in Fence
  <2>1. Closed(text, i + 1) = Begun(text, i)
    <3>1. ~Fenced(text, i + 1, i + 1)
      BY <1>1 DEF Fenced
    <3>. QED
      BY <1>3, <1>4, <1>5, <1>6, <1>8, <3>1 DEF Closed, Begun
  <2>2. Open(text, i + 1) = IF text[i + 1].key = "surface" THEN {i + 1} ELSE {}
    <3>1. ~Fenced(text, i + 1, i + 1)
      BY <1>1 DEF Fenced
    <3>2. text[i + 1].key = "surface" => i + 1 \in Starts(text)
      BY <1>1, StartsAreLines
    <3>. QED
      BY <1>1, <1>3, <1>4, <1>5, <1>8, <3>1, <3>2 DEF Open
  <2>. QED
    BY <1>2, <1>3, <1>8, <2>1, <2>2
<1>. QED
  BY <1>7, <1>8

LEMMA HeldGrows ==
  ASSUME NEW text, IsText(text), NEW i \in 0..Len(text), NEW s \in Starts(text)
  PROVE  Held(text, s, i) \subseteq Held(text, s, Len(text))
<1>1. Len(text) \in Nat /\ s \in 1..Len(text)
  BY TextLines, StartsAreLines
<1>. QED
  BY <1>1 DEF Held

(* What a well-formed text says of one line.                               *)
LEMMA WellFormedLine ==
  ASSUME NEW text, IsText(text), WellFormed(text), NEW j \in 1..Len(text),
         text[j].key \notin {"comment", "blank"}
  PROVE  \E s \in Starts(text) : /\ j \in Held(text, s, Len(text))
                                 /\ Lawful(text, s, Len(text))
<1>1. DOMAIN text = 1..Len(text)
  BY TextLines
<1>2. PICK s \in Starts(text) : j \in Span(text, s)
  BY <1>1 DEF WellFormed
<1>3. s \in 1..Len(text)
  BY StartsAreLines
<1>4. Span(text, s) = Held(text, s, Len(text))
  BY <1>3, SpanIsHeld
<1>5. /\ \A i, k \in Span(text, s) : text[i].key = text[k].key => i = k
      /\ \A i \in Span(text, s) : text[i].key \in Keys
  BY DEF WellFormed, FieldsAt
<1>. QED
  BY <1>2, <1>4, <1>5 DEF Lawful

(* A line with a key that is none of a record still open has no record.    *)
LEMMA LineOfOpen ==
  ASSUME NEW text, IsText(text), NEW i \in 0..Len(text) - 1, text[i + 1].key \notin Fence,
         NEW s \in Starts(text), i + 1 \in Held(text, s, Len(text))
  PROVE  s \in Open(text, i)
<1>1. Len(text) \in Nat /\ i \in Nat /\ s \in 1..Len(text) /\ text[s].key \in Fence
  BY TextLines, StartsAreLines DEF Fence
<1>2. i + 1 \in s..Len(text) /\ ~Fenced(text, s, i + 1)
  BY DEF Held
<1>3. s # i + 1
  BY <1>1
<1>4. s \in 1..i
  BY <1>1, <1>2, <1>3
<1>5. ~Fenced(text, s, i)
  BY <1>1, <1>2, <1>4, HeldByStep
<1>. QED
  BY <1>1, <1>4, <1>5 DEF Open

-----------------------------------------------------------------------------
(* One line of each kind.                                                  *)
LEMMA ThrowsBy ==
  ASSUME NEW p, IsParser(p)
  PROVE  IsParser(Thrown(p)) /\ Thrown(p).error
<1>1. Thrown(p) = [records |-> p.records, current |-> p.current, error |-> TRUE]
  BY SetFields, Zenon DEF Thrown, IsParser
<1>. QED
  BY <1>1 DEF IsParser

LEMMA CoveredMore ==
  ASSUME NEW text, NEW i \in Nat, Covered(text, i),
         text[i + 1].key \in {"comment", "blank"}
           \/ \E s \in Starts(text) : i + 1 \in Held(text, s, Len(text))
  PROVE  Covered(text, i + 1)
<1>1. \A j \in 1..i + 1 : j \in 1..i \/ j = i + 1
  OBVIOUS
<1>. QED
  BY <1>1 DEF Covered

LEMMA TakeComment ==
  ASSUME NEW text, IsText(text), NEW i \in 0..Len(text) - 1, NEW p, IsParser(p),
         Sound(text, p, i), text[i + 1].key = "comment"
  PROVE  Sound(text, p, i + 1)
<1>1. i \in Nat /\ text[i + 1].key \notin Fence
  BY TextLines DEF Fence
<1>2. \A s \in 1..i : Held(text, s, i + 1) = Held(text, s, i)
  BY <1>1, HeldByStep
<1>3. Closed(text, i + 1) = Closed(text, i) /\ Open(text, i + 1) = Open(text, i)
  BY <1>1, OpenByStep
<1>4. \A s \in Starts(text) : s <= i + 1 => s \in 1..i
  BY OpenByStep
<1>5. \A s \in Open(text, i) : s \in 1..i
  BY <1>1, StartsAreLines, TextLines DEF Open
<1>6. Covered(text, i + 1)
  BY <1>1, CoveredMore DEF Sound
<1>7. \A s \in Starts(text) : s <= i + 1 => Lawful(text, s, i + 1)
  BY <1>2, <1>4, <1>1 DEF Sound, Lawful
<1>. QED
  BY <1>2, <1>3, <1>5, <1>6, <1>7 DEF Sound

(* What a fence leaves: every record that began is whole.                  *)
LEMMA Fences ==
  ASSUME NEW text, IsText(text), NEW i \in 0..Len(text) - 1, NEW p, Sound(text, p, i),
         text[i + 1].key \in Fence
  PROVE  /\ Covered(text, i + 1)
         /\ \A s \in Starts(text) : s <= i + 1 => Lawful(text, s, i + 1)
         /\ \A s \in Open(text, i + 1) : s = i + 1 /\ Held(text, s, i + 1) = {i + 1}
<1>1. i \in Nat /\ Len(text) \in Nat /\ i + 1 \in 1..Len(text)
  BY TextLines
<1>2. \A s \in 1..i : Held(text, s, i + 1) = Held(text, s, i)
  BY <1>1, HeldByStep
<1>3. text[i + 1].key = "surface" => Held(text, i + 1, i + 1) = {i + 1}
  BY <1>1, HeldFirst
<1>4. \A s \in Starts(text) : s <= i + 1 => s \in 1..i \/ (s = i + 1 /\ text[i + 1].key = "surface")
  BY OpenByStep
<1>5. ASSUME text[i + 1].key = "surface"
      PROVE  i + 1 \in Starts(text) /\ i + 1 \in Held(text, i + 1, Len(text))
  <2>1. i + 1 \in Starts(text)
    BY <1>1, <1>5, StartsAreLines
  <2>. QED
    BY <1>1, <1>3, <1>5, <2>1, HeldGrows
<1>6. Covered(text, i + 1)
  BY <1>1, <1>5, CoveredMore DEF Sound, Fence
<1>7. ASSUME NEW s \in Starts(text), s <= i + 1 PROVE Lawful(text, s, i + 1)
  <2>1. CASE s \in 1..i
    BY <1>1, <1>2, <2>1 DEF Sound, Lawful
  <2>2. CASE s = i + 1 /\ text[i + 1].key = "surface"
    BY <1>3, <2>2 DEF Lawful, Keys
  <2>. QED
    BY <1>4, <1>7, <2>1, <2>2
<1>8. \A s \in Open(text, i + 1) : s = i + 1 /\ text[i + 1].key = "surface"
  <2>1. Open(text, i + 1) = IF text[i + 1].key = "surface" THEN {i + 1} ELSE {}
    BY OpenByStep
  <2>. QED
    BY <2>1
<1>. QED
  BY <1>3, <1>6, <1>7, <1>8

LEMMA TakeBlank ==
  ASSUME NEW text, IsText(text), NEW i \in 0..Len(text) - 1, NEW p, Reading(text, i, p), ~p.error,
         text[i + 1].key = "blank"
  PROVE  Reading(text, i + 1, Finish(p))
<1>. DEFINE q == Finish(p)
<1>1. Sound(text, p, i) /\ text[i + 1].key \in Fence /\ i \in 0..Len(text)
  BY TextLines DEF Reading, Fence
<1>2. /\ IsParser(q)
      /\ q.error => ~WellFormed(text)
      /\ ~q.error => /\ DOMAIN q.current = {}
                     /\ \A s \in Begun(text, i) : IsValid(FieldsAt(text, s))
                     /\ Holds(q.records, text, Begun(text, i))
  BY <1>1, Finished
<1>3. Closed(text, i + 1) = Begun(text, i) /\ Open(text, i + 1) = {}
  BY <1>1, OpenByStep
<1>4. ~q.error => Sound(text, q, i + 1)
  <2>. HIDE DEF q
  <2>. QED
    BY <1>1, <1>2, <1>3, Fences DEF Sound
<1>. QED
  BY <1>2, <1>4 DEF Reading

LEMMA TakeSurface ==
  ASSUME NEW text, IsText(text), NEW i \in 0..Len(text) - 1, NEW p, Reading(text, i, p), ~p.error,
         text[i + 1].key = "surface"
  PROVE  Reading(text, i + 1, Begin(p, text[i + 1]))
<1>. DEFINE q == Finish(p)
            b == Begin(p, text[i + 1])
            new == [key \in {"surface"} |-> text[i + 1].value]
<1>1. Sound(text, p, i) /\ text[i + 1].key \in Fence /\ i \in 0..Len(text) /\ i \in Nat
  BY TextLines DEF Reading, Fence
<1>2. /\ IsParser(q)
      /\ q.error => ~WellFormed(text)
      /\ ~q.error => /\ DOMAIN q.current = {}
                     /\ \A s \in Begun(text, i) : IsValid(FieldsAt(text, s))
                     /\ Holds(q.records, text, Begun(text, i))
  BY <1>1, Finished
<1>3. Closed(text, i + 1) = Begun(text, i) /\ Open(text, i + 1) = {i + 1}
  BY <1>1, OpenByStep
<1>4. b = [q EXCEPT !.current = new]
  BY DEF Begin
<1>5. FieldsOf(text, {i + 1}) = new
  <2>1. FieldsOf(text, {i + 1}) =
          [key \in {"surface"} |-> text[CHOOSE j \in {i + 1} : text[j].key = key].value]
    BY DEF FieldsOf
  <2>2. \A key \in {"surface"} : (CHOOSE j \in {i + 1} : text[j].key = key) = i + 1
    OBVIOUS
  <2>. QED
    BY <2>1, <2>2
<1>6. Held(text, i + 1, i + 1) = {i + 1}
  BY <1>1, HeldFirst
<1>. HIDE DEF q, b, new
<1>7. b = [records |-> q.records, current |-> new, error |-> q.error]
  BY <1>2, <1>4, SetFields, Zenon DEF IsParser
<1>8. IsParser(b) /\ b.records = q.records /\ b.current = new /\ b.error = q.error
  BY <1>2, <1>7 DEF IsParser
<1>9. ~b.error => Sound(text, b, i + 1)
  BY <1>1, <1>2, <1>3, <1>5, <1>6, <1>8, Fences DEF Sound
<1>. QED
  BY <1>2, <1>8, <1>9 DEF Reading, b

LEMMA TakeJunk ==
  ASSUME NEW text, IsText(text), NEW i \in 0..Len(text) - 1, NEW p, Reading(text, i, p), ~p.error,
         text[i + 1].key = "junk"
  PROVE  Reading(text, i + 1, Thrown(p))
<1>1. IsParser(Thrown(p)) /\ Thrown(p).error
  BY ThrowsBy DEF Reading
<1>2. ASSUME WellFormed(text) PROVE FALSE
  <2>1. i + 1 \in 1..Len(text)
    BY TextLines
  <2>. QED
    BY <1>2, <2>1, WellFormedLine DEF Lawful, Keys
<1>. QED
  BY <1>1, <1>2 DEF Reading

(* A parser that has read some records and some fields.                    *)
Holding(q, records, fields) ==
  IsParser(q) /\ ~q.error /\ q.records = records /\ q.current = fields

(* A field that is added: the parser's current record holds one line more. *)
LEMMA AddFieldBy ==
  ASSUME NEW text, NEW held, NEW i, NEW p, IsParser(p), ~p.error,
         p.current = FieldsOf(text, held), DOMAIN p.current # {},
         text[i].key \notin DOMAIN p.current,
         \A j, k \in held : text[j].key = text[k].key => j = k,
         NEW more, more = held \cup {i}
  PROVE  Holding(AddField(p, text[i]), p.records, FieldsOf(text, more))
<1>. DEFINE line == text[i]
            q == AddField(p, line)
            k == line.key
            new == [key \in DOMAIN p.current \cup {k} |->
                      IF key = k THEN line.value ELSE p.current[key]]
            F == FieldsOf(text, held)
            G == FieldsOf(text, more)
<1>1. q = [p EXCEPT !.current = new]
  BY DEF AddField
<1>2. \A j \in held : text[j].key # text[i].key
  BY DEF FieldsOf
<1>3. Extends(text, held, i, more)
  BY <1>2, FieldsMore
<1>4. /\ DOMAIN G = DOMAIN F \cup {k} /\ G[k] = line.value
      /\ \A key \in DOMAIN F : G[key] = F[key]
  BY <1>3 DEF Extends
<1>5. G = [key \in DOMAIN G |-> G[key]]
  BY DEF FieldsOf
<1>6. p.current = F /\ k \notin DOMAIN F
  OBVIOUS
<1>7. new = [key \in DOMAIN p.current \cup {k} |->
               IF key = k THEN line.value ELSE p.current[key]]
  OBVIOUS
<1>. HIDE DEF F, G, new, k, line
<1>8. new = G
  BY <1>4, <1>5, <1>6, <1>7
<1>. HIDE DEF q
<1>9. q = [records |-> p.records, current |-> new, error |-> p.error]
  BY <1>1, SetFields, Zenon DEF IsParser
<1>. QED
  BY <1>8, <1>9 DEF IsParser, Holding, q, line, G

(* A line with a key: a field of the open record, or the text is not       *)
(* well-formed, because none is open or the key is repeated.               *)
LEMMA TakeField ==
  ASSUME NEW text, IsText(text), NEW i \in 0..Len(text) - 1, NEW p, Reading(text, i, p), ~p.error,
         text[i + 1].key \in Keys \ {"surface"}
  PROVE  Reading(text, i + 1, AddField(p, text[i + 1]))
<1>. DEFINE n == Len(text)
            line == text[i + 1]
            q == AddField(p, line)
            new == [key \in DOMAIN p.current \cup {line.key} |->
                      IF key = line.key THEN line.value ELSE p.current[key]]
<1>1. n \in Nat /\ i \in Nat /\ i \in 0..n /\ i + 1 \in 1..n
  BY TextLines
<1>2. line.key \notin {"comment", "blank"} /\ line.key \notin Fence
  BY DEF Keys, Fence
<1>3. IsParser(p) /\ Sound(text, p, i)
  BY DEF Reading
<1>. HIDE DEF n
<1>4. CASE Open(text, i) = {}
  <2>1. q = Thrown(p)
    BY <1>3, <1>4 DEF Sound, AddField
  <2>2. ASSUME WellFormed(text) PROVE FALSE
    <3>1. PICK s \in Starts(text) : i + 1 \in Held(text, s, Len(text))
      BY <1>1, <1>2, <2>2, WellFormedLine DEF n
    <3>. QED
      BY <1>2, <1>4, <3>1, LineOfOpen
  <2>. QED
    BY <1>3, <2>1, <2>2, ThrowsBy DEF Reading
<1>5. CASE Open(text, i) # {}
  <2>1. PICK s \in Open(text, i) : TRUE
    BY <1>5
  <2>. DEFINE held == Held(text, s, i)
  <2>2. s \in Starts(text) /\ s \in 1..i /\ s <= i /\ ~Fenced(text, s, i)
    BY <2>1, StartsAreLines DEF Open
  <2>3. p.current = FieldsOf(text, held) /\ DOMAIN p.current = {text[j].key : j \in held}
    BY <1>3, <2>1 DEF Sound, FieldsOf
  <2>4. \A j, k \in held : text[j].key \in Keys /\ (text[j].key = text[k].key => j = k)
    BY <1>3, <2>2 DEF Sound, Lawful
  <2>5. held \subseteq Held(text, s, Len(text)) /\ \A j \in held : j <= i
    <3>1. \A j \in held : j <= i
      BY <1>1, <2>2 DEF Held
    <3>. QED
      BY <1>1, <2>2, <3>1, HeldGrows DEF n
  <2>6. DOMAIN p.current # {}
    <3>1. s \in held
      <4>1. s \in s..i /\ s + 1..s = {} /\ text[s].key = "surface"
        BY <1>1, <2>2, StartsAreLines
      <4>. QED
        BY <4>1 DEF Held, Fenced
    <3>. QED
      BY <2>3, <3>1
  <2>7. Held(text, s, i + 1) = held \cup {i + 1}
    BY <1>1, <1>2, <2>2, HeldByStep
  <2>8. CASE line.key \in DOMAIN p.current
    <3>1. q = Thrown(p)
      BY <2>8 DEF AddField
    <3>2. PICK j \in held : text[j].key = line.key
      BY <2>3, <2>8
    <3>3. ASSUME WellFormed(text) PROVE FALSE
      <4>1. PICK t \in Starts(text) : i + 1 \in Held(text, t, Len(text)) /\ Lawful(text, t, Len(text))
        BY <1>1, <1>2, <3>3, WellFormedLine DEF n
      <4>2. t = s
        <5>1. t \in Open(text, i)
          BY <1>2, <4>1, LineOfOpen
        <5>. QED
          BY <1>1, <2>1, <5>1, OpenIsOne DEF n
      <4>3. j = i + 1
        BY <2>5, <3>2, <4>1, <4>2 DEF Lawful
      <4>. QED
        BY <1>1, <2>5, <4>3
    <3>. QED
      BY <1>3, <3>1, <3>3, ThrowsBy DEF Reading
  <2>9. CASE line.key \notin DOMAIN p.current
    <3>1. \A j \in held : text[j].key # text[i + 1].key
      BY <2>3, <2>9
    <3>4. /\ IsParser(q) /\ ~q.error /\ q.records = p.records
          /\ q.current = FieldsOf(text, held \cup {i + 1})
      <4>. DEFINE more == held \cup {i + 1}
      <4>1. more = held \cup {i + 1}
        OBVIOUS
      <4>. HIDE DEF held, more
      <4>2. Holding(AddField(p, text[i + 1]), p.records, FieldsOf(text, more))
        BY <1>3, <2>3, <2>4, <2>6, <2>9, <4>1, AddFieldBy
      <4>. QED
        BY <4>1, <4>2 DEF Holding
    <3>. HIDE DEF q
    <3>5. Closed(text, i + 1) = Closed(text, i) /\ Open(text, i + 1) = Open(text, i)
      BY <1>2, OpenByStep
    <3>6. Covered(text, i + 1)
      <4>1. i + 1 \in Held(text, s, i + 1) /\ i + 1 \in 0..Len(text)
        BY <1>1, <2>7 DEF n
      <4>2. i + 1 \in Held(text, s, Len(text))
        BY <2>2, <4>1, HeldGrows
      <4>. QED
        BY <1>1, <1>3, <2>2, <4>2, CoveredMore DEF Sound
    <3>7. ASSUME NEW t \in Starts(text), t <= i + 1 PROVE Lawful(text, t, i + 1)
      <4>1. t \in 1..i /\ t <= i
        <5>1. t \in 1..i
          BY <1>2, <3>7, OpenByStep DEF Fence
        <5>. QED
          BY <1>1, <5>1
      <4>2. CASE t = s
        <5>1. text[i + 1].key \in Keys /\ \A j \in held : text[j].key # text[i + 1].key
          BY <2>3, <2>9
        <5>. HIDE DEF held
        <5>. QED
          BY <2>4, <2>7, <4>2, <5>1 DEF Lawful
      <4>3. CASE t # s
        <5>1. Fenced(text, t, i)
          BY <1>1, <2>1, <4>1, <4>3, OpenIsOne DEF Open, n
        <5>2. Held(text, t, i + 1) = Held(text, t, i)
          BY <1>1, <4>1, <5>1, HeldByStep
        <5>. QED
          BY <1>3, <4>1, <5>2 DEF Sound, Lawful
      <4>. QED
        BY <4>2, <4>3
    <3>8. \A t \in Open(text, i + 1) : q.current = FieldsOf(text, Held(text, t, i + 1))
      <4>1. \A t \in Open(text, i) : t = s
        BY <1>1, <2>1, OpenIsOne DEF n
      <4>. QED
        BY <2>7, <3>4, <3>5, <4>1
    <3>9. Sound(text, q, i + 1)
      BY <1>3, <1>5, <3>4, <3>5, <3>6, <3>7, <3>8 DEF Sound
    <3>. QED
      BY <3>4, <3>9 DEF Reading, q
  <2>. QED
    BY <2>8, <2>9
<1>. QED
  BY <1>4, <1>5

LEMMA TakeStep ==
  ASSUME NEW text, IsText(text), NEW i \in 0..Len(text) - 1, NEW p, Reading(text, i, p)
  PROVE  Reading(text, i + 1, Take(p, text[i + 1]))
<1>. DEFINE key == text[i + 1].key
<1>1. CASE p.error
  BY <1>1 DEF Take, Reading
<1>2. CASE ~p.error /\ key = "comment"
  <2>1. Take(p, text[i + 1]) = p
    BY <1>2 DEF Take
  <2>. QED
    BY <1>2, <2>1, TakeComment DEF Reading
<1>3. CASE ~p.error /\ key = "junk"
  BY <1>3, TakeJunk DEF Take
<1>4. CASE ~p.error /\ key = "blank"
  BY <1>4, TakeBlank DEF Take
<1>5. CASE ~p.error /\ key = "surface"
  BY <1>5, TakeSurface DEF Take
<1>6. CASE ~p.error /\ key \in Keys \ {"surface"}
  <2>1. Take(p, text[i + 1]) = AddField(p, text[i + 1])
    BY <1>6 DEF Take, Keys
  <2>. QED
    BY <1>6, <2>1, TakeField
<1>7. key \in Keys \cup {"comment", "blank", "junk"}
  BY TextLines
<1>. QED
  BY <1>1, <1>2, <1>3, <1>4, <1>5, <1>6, <1>7

-----------------------------------------------------------------------------
(* The parser's recursion, and with it the invariant of its pass.          *)
LEMMA ParsedByStep ==
  ASSUME NEW text, Len(text) \in Nat
  PROVE  /\ ParsedOf(text)[0] = Fresh
         /\ \A i \in 0..Len(text) - 1 : ParsedOf(text)[i + 1] = Take(ParsedOf(text)[i], text[i + 1])
<1>. DEFINE n == Len(text)
            fresh == Fresh
            Body(f) == [i \in 0..n |-> IF i = 0 THEN fresh ELSE Take(f[i - 1], text[i])]
            parsed == CHOOSE f : f = Body(f)
            Made(g, k) == /\ g[0] = fresh
                          /\ \A i \in 1..k : g[i] = Take(g[i - 1], text[i])
            S == {k \in 0..n : \E g : g = [i \in 0..k |-> g[i]] /\ Made(g, k)}
<1>1. n \in Nat
  OBVIOUS
<1>2. ParsedOf(text) = parsed
  BY DEF ParsedOf
<1>. HIDE DEF n, fresh
<1>3. 0 \in S
  <2>. DEFINE g == [i \in 0..0 |-> fresh]
  <2>1. g = [i \in 0..0 |-> g[i]] /\ g[0] = fresh /\ 1..0 = {}
    OBVIOUS
  <2>. HIDE DEF g
  <2>2. Made(g, 0)
    BY <2>1
  <2>. HIDE DEF Made
  <2>. QED
    BY <1>1, <2>1, <2>2
<1>4. ASSUME NEW k \in 0..n - 1, k \in S PROVE k + 1 \in S
  <2>1. PICK g : g = [i \in 0..k |-> g[i]] /\ Made(g, k)
    BY <1>4
  <2>2. k \in Nat /\ k + 1 \in 1..n /\ k + 1 \in 0..n
    BY <1>1
  <2>. DEFINE last == Take(g[k], text[k + 1])
              h == [i \in 0..k + 1 |-> IF i = k + 1 THEN last ELSE g[i]]
  <2>3. h = [i \in 0..k + 1 |-> h[i]]
    OBVIOUS
  <2>4. h[0] = fresh
    BY <2>1, <2>2
  <2>5. ASSUME NEW i \in 1..k + 1 PROVE h[i] = Take(h[i - 1], text[i])
    <3>1. i - 1 \in 0..k /\ h[i - 1] = g[i - 1]
      BY <2>2
    <3>2. CASE i = k + 1
      <4>1. h[i] = last /\ i - 1 = k
        BY <3>2, <2>2
      <4>. HIDE DEF h
      <4>. QED
        BY <3>1, <3>2, <4>1
    <3>3. CASE i # k + 1
      <4>1. i \in 1..k /\ h[i] = g[i]
        BY <3>3, <2>2
      <4>. HIDE DEF h
      <4>. QED
        BY <2>1, <3>1, <4>1
    <3>. QED
      BY <3>2, <3>3
  <2>. HIDE DEF h
  <2>6. Made(h, k + 1)
    BY <2>4, <2>5
  <2>. HIDE DEF Made
  <2>. QED
    BY <2>2, <2>3, <2>6
<1>. HIDE DEF S
<1>5. \A k \in 0..n : k \in S
  BY <1>1, <1>3, <1>4, UpTo
<1>6. PICK g : g = [i \in 0..n |-> g[i]] /\ Made(g, n)
  BY <1>1, <1>5 DEF S
<1>7. g = Body(g)
  <2>1. \A i \in 0..n : i # 0 => i \in 1..n
    BY <1>1
  <2>2. \A i \in 0..n : g[i] = IF i = 0 THEN fresh ELSE Take(g[i - 1], text[i])
    BY <1>6, <2>1
  <2>3. g = [i \in 0..n |-> g[i]]
    BY <1>6
  <2>. QED
    BY <2>2, <2>3
<1>8. parsed = Body(parsed)
  <2>. HIDE DEF Body
  <2>. QED
    BY <1>7
<1>. HIDE DEF parsed
<1>9. parsed[0] = fresh
  BY <1>1, <1>8
<1>10. \A i \in 0..n : parsed[i] = IF i = 0 THEN fresh ELSE Take(parsed[i - 1], text[i])
  BY <1>8
<1>. HIDE DEF Body
<1>11. ASSUME NEW i \in 0..n - 1 PROVE parsed[i + 1] = Take(parsed[i], text[i + 1])
  <2>1. i + 1 \in 0..n /\ i + 1 # 0 /\ i + 1 - 1 = i
    BY <1>1
  <2>. QED
    BY <1>10, <2>1
<1>. QED
  BY <1>2, <1>9, <1>11 DEF n, fresh

LEMMA ReadingFresh == ASSUME NEW text, IsText(text) PROVE Reading(text, 0, Fresh)
<1>. DEFINE none == <<>>
<1>1. IsParser(Fresh) /\ ~Fresh.error /\ Fresh.records = none /\ Fresh.current = none
  BY DEF Fresh, IsParser
<1>2. none \in Seq(AllRecords(text)) /\ Len(none) = 0 /\ DOMAIN none = {}
  BY EmptySeq, NoFields
<1>. HIDE DEF none
<1>3. Closed(text, 0) = {} /\ Open(text, 0) = {} /\ \A s \in Starts(text) : ~(s <= 0)
  BY TextLines, StartsAreLines DEF Closed, Open
<1>4. Holds(none, text, {})
  <2>. DEFINE at == [a \in 1..0 |-> a]
  <2>1. 1..0 = {} /\ at \in [1..0 -> {}]
    OBVIOUS
  <2>. HIDE DEF at
  <2>. QED
    BY <1>2, <2>1 DEF Holds
<1>5. Covered(text, 0)
  BY DEF Covered
<1>. QED
  BY <1>1, <1>2, <1>3, <1>4, <1>5 DEF Reading, Sound

LEMMA ReadingHolds ==
  ASSUME NEW text, IsText(text)
  PROVE  Reading(text, Len(text), ParsedOf(text)[Len(text)])
<1>. DEFINE n == Len(text)
            parsed == ParsedOf(text)
            S == {i \in 0..n : Reading(text, i, parsed[i])}
<1>1. n \in Nat
  BY TextLines
<1>2. parsed[0] = Fresh /\ \A i \in 0..n - 1 : parsed[i + 1] = Take(parsed[i], text[i + 1])
  BY <1>1, ParsedByStep
<1>. HIDE DEF parsed
<1>3. 0 \in S
  BY <1>1, <1>2, ReadingFresh
<1>4. ASSUME NEW i \in 0..n - 1, i \in S PROVE i + 1 \in S
  BY <1>1, <1>2, <1>4, TakeStep
<1>. HIDE DEF S, n
<1>5. \A i \in 0..n : i \in S
  BY <1>1, <1>3, <1>4, UpTo
<1>. QED
  BY <1>1, <1>5 DEF S, n, parsed

(* The name of a record is that of the line it starts with.                *)
LEMMA RecordName ==
  ASSUME NEW text, IsText(text), NEW s \in Starts(text), Lawful(text, s, Len(text))
  PROVE  RecordAt(text, s).surface = text[s].value[1]
<1>. DEFINE held == Held(text, s, Len(text))
            F == FieldsAt(text, s)
<1>1. s \in 1..Len(text) /\ text[s].key = "surface" /\ Len(text) \in Nat
  BY StartsAreLines, TextLines
<1>2. s \in held
  <2>1. s \in s..Len(text) /\ s + 1..s = {}
    BY <1>1
  <2>. QED
    BY <1>1, <2>1 DEF Held, Fenced
<1>3. F = FieldsOf(text, held) /\ \A j, k \in held : text[j].key = text[k].key => j = k
  BY <1>1, SpanIsHeld DEF Lawful
<1>. HIDE DEF held
<1>4. F["surface"] = text[s].value
  BY <1>1, <1>2, <1>3, FieldIs
<1>. HIDE DEF F
<1>5. RecordOf(F).surface = F["surface"][1]
  BY DEF RecordOf, NoneRecord
<1>. QED
  BY <1>4, <1>5 DEF RecordAt, F

LEMMA StartsAgree ==
  ASSUME NEW text, IsText(text), NEW s \in Starts(text), NEW t \in Starts(text)
  PROVE  text[s].value = text[t].value <=> text[s].value[1] = text[t].value[1]
<1>1. \A x \in Starts(text) : x \in 1..Len(text) /\ text[x].key = "surface"
  BY StartsAreLines
<1>2. \A x \in Starts(text) :
        Len(text[x].value) = 1 /\ text[x].value \in Seq(Range(text[x].value))
  BY <1>1, TextLines
<1>. DEFINE v == text[s].value
            w == text[t].value
            V == Range(v)
            W == Range(w)
<1>3. v \in Seq(V) /\ w \in Seq(W) /\ Len(v) = 1 /\ Len(w) = 1
  BY <1>2
<1>. HIDE DEF v, w, V, W
<1>4. ASSUME v[1] = w[1] PROVE v = w
  <2>1. \A i \in 1..Len(v) : v[i] = w[i]
    BY <1>3, <1>4
  <2>. QED
    BY <1>3, <2>1, SeqEqual
<1>. QED
  BY <1>4 DEF v, w

-----------------------------------------------------------------------------
(* No two records of a text are of one surface.                            *)
Once(text) == \A s, t \in Starts(text) : text[s].value = text[t].value => s = t

(* The last check finds a repeated surface just when the text has one.     *)
LEMMA RepeatsBy ==
  ASSUME NEW text, IsText(text), NEW records, Holds(records, text, Starts(text)),
         \A s \in Starts(text) : Lawful(text, s, Len(text))
  PROVE  /\ Repeats(records) <=> ~Once(text)
         /\ records \in Seq(AllRecords(text)) /\ Range(records) = AllRecords(text)
<1>. DEFINE V == AllRecords(text)
            n == Len(records)
            name(s) == text[s].value[1]
<1>1. records \in Seq(V)
  BY DEF Holds
<1>2. n \in Nat /\ DOMAIN records = 1..n /\ Range(records) = {records[a] : a \in 1..n}
  <2>. HIDE DEF V
  <2>. QED
    BY <1>1, LenProperties, RangeEquality
<1>3. PICK at \in [1..n -> Starts(text)] :
        /\ \A a, b \in 1..n : at[a] = at[b] => a = b
        /\ \A t \in Starts(text) : \E a \in 1..n : at[a] = t
        /\ \A a \in 1..n : records[a] = RecordAt(text, at[a])
  BY DEF Holds
<1>. HIDE DEF n
<1>4. \A a \in 1..n : at[a] \in Starts(text) /\ records[a].surface = name(at[a])
  BY <1>3, RecordName
<1>5. \A s, t \in Starts(text) : text[s].value = text[t].value <=> name(s) = name(t)
  BY StartsAgree
<1>. HIDE DEF name
<1>6. Range(records) = V
  BY <1>2, <1>3, <1>4 DEF AllRecords
<1>7. ASSUME NEW i \in 1..n, NEW j \in 1..n, i < j, records[i].surface = records[j].surface
      PROVE  ~Once(text)
  <2>1. name(at[i]) = name(at[j]) /\ at[i] # at[j]
    BY <1>2, <1>3, <1>4, <1>7
  <2>. QED
    BY <1>4, <1>5, <2>1 DEF Once
<1>8. ASSUME ~Once(text) PROVE Repeats(records)
  <2>1. PICK s \in Starts(text), t \in Starts(text) : s # t /\ name(s) = name(t)
    BY <1>5, <1>8 DEF Once
  <2>2. PICK a \in 1..n, b \in 1..n : at[a] = s /\ at[b] = t
    BY <1>3
  <2>3. records[a].surface = records[b].surface /\ (a < b \/ b < a)
    BY <1>2, <1>4, <2>1, <2>2
  <2>. QED
    BY <1>2, <2>3 DEF Repeats
<1>. QED
  BY <1>1, <1>2, <1>6, <1>7, <1>8 DEF Repeats

LEMMA WellFormedBy ==
  ASSUME NEW text, IsText(text), Covered(text, Len(text)),
         \A s \in Starts(text) : Lawful(text, s, Len(text)) /\ IsValid(FieldsAt(text, s))
  PROVE  WellFormed(text) <=> Once(text)
<1>1. DOMAIN text = 1..Len(text)
  BY TextLines
<1>2. \A s \in Starts(text) :
        s \in 1..Len(text) /\ Span(text, s) = Held(text, s, Len(text))
  BY StartsAreLines, SpanIsHeld
<1>3. \A j \in DOMAIN text :
        text[j].key \in {"comment", "blank"} \/ \E s \in Starts(text) : j \in Span(text, s)
  BY <1>1, <1>2 DEF Covered
<1>4. ASSUME NEW s \in Starts(text)
      PROVE  /\ \A i, j \in Span(text, s) : text[i].key = text[j].key => i = j
             /\ DOMAIN FieldsAt(text, s) \subseteq Keys
             /\ IsValid(FieldsAt(text, s))
  <2>1. \A i, j \in Span(text, s) :
          text[i].key \in Keys /\ (text[i].key = text[j].key => i = j)
    BY <1>2 DEF Lawful
  <2>2. DOMAIN FieldsAt(text, s) = {text[j].key : j \in Span(text, s)}
    BY DEF FieldsAt
  <2>. QED
    BY <2>1, <2>2
<1>. QED
  BY <1>3, <1>4 DEF WellFormed, Once

(* What parsing a text answers.                                            *)
AsWritten(text, q) ==
  /\ q.error \in BOOLEAN /\ (q.error <=> ~WellFormed(text))
  /\ WellFormed(text) => /\ q.records \in Seq(Records(text))
                         /\ Range(q.records) = Records(text)
                         /\ ~Repeats(q.records)
UniqueRecords(text) ==
  \A r, q \in Records(text) : r.surface = q.surface => r = q

LEMMA ClosedAsWritten ==
  ASSUME NEW text, IsText(text), NEW p, Reading(text, Len(text), p)
  PROVE  AsWritten(text, Close(p))
<1>. DEFINE n == Len(text)
            q == Finish(p)
<1>1. IsParser(p) /\ n \in Nat /\ n \in 0..n
  BY TextLines DEF Reading
<1>2. CASE p.error
  BY <1>2 DEF Reading, Close, AsWritten
<1>3. CASE ~p.error
  <2>1. /\ IsParser(q)
        /\ q.error => ~WellFormed(text)
        /\ ~q.error => /\ DOMAIN q.current = {}
                       /\ \A s \in Begun(text, n) : IsValid(FieldsAt(text, s))
                       /\ Holds(q.records, text, Begun(text, n))
    BY <1>1, <1>3, Finished
  <2>2. Sound(text, p, n)
    BY <1>3 DEF Reading
  <2>3. Close(p) = IF ~q.error /\ Repeats(q.records) THEN Thrown(q) ELSE q
    BY <1>3 DEF Close
  <2>4. \A s \in Starts(text) : s <= n
    BY <1>1, StartsAreLines
  <2>5. Begun(text, n) = Starts(text)
    BY <2>4 DEF Begun
  <2>6. Covered(text, n) /\ \A s \in Starts(text) : Lawful(text, s, n)
    BY <2>2, <2>4 DEF Sound
  <2>. HIDE DEF q
  <2>7. CASE q.error
    BY <2>1, <2>3, <2>7 DEF AsWritten
  <2>8. CASE ~q.error
    <3>1. WellFormed(text) <=> Once(text)
      BY <2>1, <2>5, <2>6, <2>8, WellFormedBy
    <3>2. /\ Repeats(q.records) <=> ~Once(text)
          /\ q.records \in Seq(AllRecords(text)) /\ Range(q.records) = AllRecords(text)
      BY <2>1, <2>5, <2>6, <2>8, RepeatsBy
    <3>3. CASE Once(text)
      <4>1. Records(text) = AllRecords(text)
        BY <3>1, <3>3 DEF Records, AllRecords, RecordAt
      <4>2. Close(p) = q /\ ~q.error /\ WellFormed(text)
        BY <2>3, <2>8, <3>1, <3>2, <3>3
      <4>. DEFINE S == Seq(Records(text))
      <4>3. q.records \in S /\ Range(q.records) = Records(text) /\ ~Repeats(q.records)
        BY <3>2, <3>3, <4>1
      <4>. HIDE DEF S
      <4>4. /\ Close(p).error \in BOOLEAN /\ (Close(p).error <=> ~WellFormed(text))
            /\ Close(p).records \in S /\ Range(Close(p).records) = Records(text)
            /\ ~Repeats(Close(p).records)
        BY <2>1, <4>2, <4>3 DEF IsParser
      <4>. QED
        BY <4>4 DEF AsWritten, S
    <3>4. CASE ~Once(text)
      <4>1. Thrown(q).error
        BY <2>1, ThrowsBy
      <4>. QED
        BY <2>3, <2>8, <3>1, <3>2, <3>4, <4>1 DEF AsWritten
    <3>. QED
      BY <3>3, <3>4
  <2>. QED
    BY <2>7, <2>8
<1>. QED
  BY <1>1, <1>2, <1>3 DEF IsParser

LEMMA ParsedAsWritten ==
  ASSUME NEW text, IsText(text) PROVE AsWritten(text, ParseSurfacesBlock(text))
  BY ReadingHolds, ClosedAsWritten DEF ParseSurfacesBlock

LEMMA RecordsAreUnique == ASSUME NEW text, IsText(text) PROVE UniqueRecords(text)
<1>. SUFFICES ASSUME NEW r \in Records(text), NEW q \in Records(text), r.surface = q.surface
     PROVE  r = q
  BY DEF UniqueRecords
<1>1. PICK s \in Starts(text), t \in Starts(text) :
        r = RecordAt(text, s) /\ q = RecordAt(text, t) /\ WellFormed(text)
  BY DEF Records, RecordAt
<1>2. ASSUME NEW x \in Starts(text) PROVE Lawful(text, x, Len(text))
  <2>1. x \in 1..Len(text)
    BY StartsAreLines
  <2>2. Span(text, x) = Held(text, x, Len(text))
    BY <2>1, SpanIsHeld
  <2>3. \A i, j \in Span(text, x) : text[i].key = text[j].key => i = j
    BY <1>1 DEF WellFormed
  <2>4. \A i \in Span(text, x) : text[i].key \in Keys
    BY <1>1 DEF WellFormed, FieldsAt
  <2>. QED
    BY <2>2, <2>3, <2>4 DEF Lawful
<1>3. text[s].value[1] = text[t].value[1]
  BY <1>1, <1>2, RecordName
<1>4. s = t
  BY <1>1, <1>3, StartsAgree DEF WellFormed
<1>. QED
  BY <1>1, <1>4

(* The parser, one pass with one record open, answers what the text says   *)
(* as a whole: it throws just when some line belongs to no complete record *)
(* or two records are of one surface, and else has every record the text   *)
(* has, each of another surface (surface-registry.ts:101-172).             *)
THEOREM ParserReads ==
  ASSUME NEW text, IsText(text)
  PROVE  AsWritten(text, ParseSurfacesBlock(text)) /\ UniqueRecords(text)
  BY ParsedAsWritten, RecordsAreUnique

-----------------------------------------------------------------------------
(* The parser over some lines, from one state to another.                  *)
Steps(f, p, lines, q) ==
  /\ f[0] = p /\ f[Len(lines)] = q
  /\ \A j \in 0..Len(lines) - 1 : f[j + 1] = Take(f[j], lines[j + 1])
After(lines) == ParsedOf(lines)[Len(lines)]

LEMMA StepsWhole ==
  ASSUME NEW V, NEW lines \in Seq(V)
  PROVE  Steps(ParsedOf(lines), Fresh, lines, After(lines))
<1>1. Len(lines) \in Nat
  BY LenProperties
<1>. QED
  BY <1>1, ParsedByStep DEF Steps, After

(* More lines do not change what the parser made of the first ones.        *)
LEMMA ParsedPrefix ==
  ASSUME NEW V, NEW first \in Seq(V), NEW more \in Seq(V), NEW i \in 0..Len(first)
  PROVE  ParsedOf(first \o more)[i] = ParsedOf(first)[i]
<1>. DEFINE both == first \o more
            n == Len(first)
            m == Len(both)
            f == ParsedOf(first)
            g == ParsedOf(both)
            S == {j \in 0..n : g[j] = f[j]}
<1>1. /\ n \in Nat /\ m \in Nat /\ n <= m
      /\ \A j \in 1..n : both[j] = first[j]
  BY ConcatProperties, LenProperties
<1>2. f[0] = Fresh /\ \A j \in 0..n - 1 : f[j + 1] = Take(f[j], first[j + 1])
  BY <1>1, ParsedByStep
<1>3. g[0] = Fresh /\ \A j \in 0..m - 1 : g[j + 1] = Take(g[j], both[j + 1])
  BY <1>1, ParsedByStep
<1>. HIDE DEF both, n, m, f, g
<1>4. 0 \in S
  BY <1>1, <1>2, <1>3
<1>5. ASSUME NEW j \in 0..n - 1, j \in S PROVE j + 1 \in S
  <2>1. j \in 0..m - 1 /\ j + 1 \in 1..n /\ j + 1 \in 0..n
    BY <1>1
  <2>. QED
    BY <1>1, <1>2, <1>3, <1>5, <2>1
<1>. HIDE DEF S
<1>6. \A j \in 0..n : j \in S
  BY <1>1, <1>4, <1>5, UpTo
<1>. QED
  BY <1>6 DEF S, n, f, g, both

LEMMA StepsMore ==
  ASSUME NEW V, NEW first \in Seq(V), NEW more \in Seq(V)
  PROVE  \E f : Steps(f, After(first), more, After(first \o more))
<1>. DEFINE both == first \o more
            n == Len(first)
            k == Len(more)
            g == ParsedOf(both)
            f == [j \in 0..k |-> g[n + j]]
<1>1. /\ n \in Nat /\ k \in Nat /\ Len(both) = n + k
      /\ \A j \in 1..k : both[n + j] = more[j]
  BY ConcatProperties, LenProperties
<1>2. \A j \in 0..n + k - 1 : g[j + 1] = Take(g[j], both[j + 1])
  <2>1. Len(both) \in Nat
    BY <1>1
  <2>. HIDE DEF both
  <2>2. \A j \in 0..Len(both) - 1 : g[j + 1] = Take(g[j], both[j + 1])
    BY <2>1, ParsedByStep
  <2>. QED
    BY <1>1, <2>2
<1>3. g[n] = After(first)
  BY <1>1, ParsedPrefix DEF After
<1>4. g[n + k] = After(both)
  BY <1>1 DEF After
<1>. HIDE DEF both, n, k, g
<1>5. f[0] = After(first) /\ f[k] = After(both)
  BY <1>1, <1>3, <1>4
<1>6. ASSUME NEW j \in 0..k - 1 PROVE f[j + 1] = Take(f[j], more[j + 1])
  <2>1. n + j \in 0..n + k - 1 /\ j + 1 \in 1..k /\ j \in 0..k /\ j + 1 \in 0..k
    BY <1>1
  <2>2. n + j + 1 = n + (j + 1)
    BY <1>1
  <2>3. g[n + (j + 1)] = Take(g[n + j], more[j + 1])
    BY <1>1, <1>2, <2>1, <2>2
  <2>. QED
    BY <2>1, <2>3
<1>. HIDE DEF f
<1>7. Steps(f, After(first), more, After(both))
  BY <1>5, <1>6 DEF Steps, k
<1>. QED
  BY <1>7 DEF both

(* The lines of one record: a surface: line and then keys of which none is *)
(* there twice.                                                            *)
IsBlock(lines) ==
  /\ lines \in Seq(Range(lines)) /\ Len(lines) \in Nat \ {0} /\ lines[1].key = "surface"
  /\ \A j \in 2..Len(lines) : lines[j].key \in Keys \ {"surface"}
  /\ \A j, k \in 1..Len(lines) : lines[j].key = lines[k].key => j = k
BlockFields(lines) == FieldsOf(lines, 1..Len(lines))

NoFieldsIn(fields) == DOMAIN fields = {}

(* Where nothing is open the parser reads such lines as one record's, and  *)
(* it does so after a blank line, which closes the record before.          *)
LEMMA BlockTaken ==
  ASSUME NEW lines, IsBlock(lines), NEW f, NEW p, NEW q, Steps(f, p, lines, q),
         NEW records, NEW fields, Holding(p, records, fields), DOMAIN fields = {}
  PROVE  Holding(q, records, BlockFields(lines))
<1>. DEFINE n == Len(lines)
            P(j) == Holding(f[j + 1], records, FieldsOf(lines, 1..j + 1))
            S == {j \in 0..n - 1 : P(j)}
<1>1. /\ n \in Nat \ {0} /\ lines[1].key = "surface"
      /\ \A j \in 2..n : lines[j].key \in Keys \ {"surface"}
      /\ \A j, k \in 1..n : lines[j].key = lines[k].key => j = k
  BY DEF IsBlock
<1>2. /\ f[0] = p /\ f[n] = q
      /\ \A j \in 0..n - 1 : f[j + 1] = Take(f[j], lines[j + 1])
  BY DEF Steps
<1>. HIDE DEF n
<1>3. P(0)
  <2>. DEFINE new == [key \in {"surface"} |-> lines[1].value]
              b == f[1]
  <2>1. IsParser(p) /\ ~p.error /\ p.records = records /\ DOMAIN p.current = {}
    BY DEF Holding
  <2>2. b = Take(p, lines[1])
    BY <1>1, <1>2
  <2>3. Take(p, lines[1]) = [Finish(p) EXCEPT !.current = new]
    BY <1>1, <2>1 DEF Take, Begin
  <2>4. Finish(p) = p
    BY <2>1 DEF Finish
  <2>5. FieldsOf(lines, 1..1) = new
    <3>1. 1..1 = {1}
      OBVIOUS
    <3>2. FieldsOf(lines, {1}) =
            [key \in {"surface"} |-> lines[CHOOSE j \in {1} : lines[j].key = key].value]
      BY <1>1 DEF FieldsOf
    <3>3. \A key \in {"surface"} : (CHOOSE j \in {1} : lines[j].key = key) = 1
      BY <1>1
    <3>. QED
      BY <3>1, <3>2, <3>3
  <2>. HIDE DEF new, b
  <2>6. b = [p EXCEPT !.current = new]
    BY <2>2, <2>3, <2>4
  <2>7. b = [records |-> p.records, current |-> new, error |-> p.error]
    BY <2>1, <2>6, SetFields, Zenon DEF IsParser
  <2>8. Holding(b, records, new)
    BY <2>1, <2>7 DEF Holding, IsParser
  <2>. QED
    BY <2>5, <2>8 DEF b
<1>4. ASSUME NEW j \in 0..n - 1 - 1, P(j) PROVE P(j + 1)
  <2>. DEFINE held == 1..j + 1
              i == j + 2
              more == 1..i
              p2 == f[j + 1]
              F == FieldsOf(lines, held)
  <2>1. /\ i \in 2..n /\ i \in 1..n /\ held \subseteq 1..n /\ i \notin held /\ 1 \in held
        /\ more = held \cup {i} /\ j + 1 \in 0..n - 1 /\ j + 1 + 1 = i
    BY <1>1
  <2>2. lines[i].key \in Keys \ {"surface"}
    BY <1>1, <2>1
  <2>3. IsParser(p2) /\ ~p2.error /\ p2.records = records /\ p2.current = F
    BY <1>4 DEF Holding
  <2>4. DOMAIN F = {lines[k].key : k \in held}
    BY DEF FieldsOf
  <2>5. \A k, m \in held : lines[k].key = lines[m].key => k = m
    BY <1>1, <2>1
  <2>7. f[i] = Take(p2, lines[i])
    BY <1>2, <2>1
  <2>. HIDE DEF held, more, i, p2, F
  <2>6. DOMAIN F # {} /\ lines[i].key \notin DOMAIN F
    BY <1>1, <2>1, <2>4
  <2>8. Take(p2, lines[i]) = AddField(p2, lines[i])
    BY <2>2, <2>3 DEF Take, Keys
  <2>9. Holding(AddField(p2, lines[i]), p2.records, FieldsOf(lines, more))
    BY <2>1, <2>3, <2>5, <2>6, AddFieldBy DEF F
  <2>10. Holding(f[i], records, FieldsOf(lines, 1..i))
    BY <2>3, <2>7, <2>8, <2>9 DEF more
  <2>11. P(j + 1) = Holding(f[i], records, FieldsOf(lines, 1..i))
    BY <2>1
  <2>. QED
    BY <2>10, <2>11
<1>5. \A j \in 0..n - 1 : j \in S
  <2>1. 0 \in S
    BY <1>1, <1>3
  <2>. DEFINE m == n - 1
  <2>2. \A j \in 0..m - 1 : j \in S => j + 1 \in S
    <3>1. \A j \in 0..m - 1 : j + 1 \in 0..n - 1
      BY <1>1
    <3>. QED
      BY <1>4, <3>1
  <2>3. m \in Nat
    BY <1>1
  <2>. HIDE DEF S, m
  <2>4. \A j \in 0..m : j \in S
    BY <2>1, <2>2, <2>3, UpTo
  <2>. QED
    BY <2>4 DEF m
<1>6. P(n - 1) /\ n - 1 + 1 = n
  BY <1>1, <1>5
<1>. QED
  BY <1>2, <1>6 DEF n, BlockFields

LEMMA BlockAfterBlank ==
  ASSUME NEW lines, IsBlock(lines), NEW blank, blank.key = "blank", NEW all,
         all = <<blank>> \o lines, NEW f, NEW p, NEW q, Steps(f, p, all, q),
         NEW records, NEW fields, Holding(p, records, fields), DOMAIN fields # {}, IsValid(fields)
  PROVE  Holding(q, Append(records, RecordOf(fields)), BlockFields(lines))
<1>. DEFINE n == Len(lines)
            V == Range(lines) \cup {blank}
            one == <<blank>>
            more == Append(records, RecordOf(fields))
            none == <<>>
            g == [j \in 0..n |-> f[j + 1]]
<1>1. n \in Nat \ {0} /\ lines \in Seq(V)
  BY SeqMonotonic DEF IsBlock
<1>2. one \in Seq(V) /\ Len(one) = 1 /\ one[1] = blank
  OBVIOUS
<1>3. /\ Len(all) = n + 1 /\ all[1] = blank
      /\ \A j \in 1..n : all[j + 1] = lines[j]
  <2>. HIDE DEF one, V
  <2>1. /\ Len(all) = Len(one) + Len(lines)
        /\ \A j \in 1..Len(one) : all[j] = one[j]
        /\ \A j \in 1..Len(lines) : all[Len(one) + j] = lines[j]
    BY <1>1, <1>2, ConcatProperties DEF one
  <2>2. \A j \in 1..n : 1 + j = j + 1
    BY <1>1
  <2>. QED
    BY <1>1, <1>2, <2>1, <2>2
<1>4. /\ f[0] = p /\ f[n + 1] = q
      /\ \A j \in 0..n : f[j + 1] = Take(f[j], all[j + 1])
  <2>1. 0..n + 1 - 1 = 0..n
    BY <1>1
  <2>. QED
    BY <1>3, <2>1 DEF Steps
<1>5. NoFieldsIn(none)
  BY NoFields DEF NoFieldsIn
<1>. HIDE DEF n, V, one, more, none
<1>6. Holding(f[1], more, none)
  <2>1. IsParser(p) /\ ~p.error /\ p.records = records /\ p.current = fields
    BY DEF Holding
  <2>2. f[1] = Take(p, blank)
    BY <1>1, <1>3, <1>4
  <2>3. Take(p, blank) = Finish(p)
    BY <2>1 DEF Take
  <2>4. /\ IsParser(Finish(p)) /\ ~Finish(p).error
        /\ Finish(p).records = more /\ Finish(p).current = none
    BY <2>1, FinishBy DEF more, none
  <2>. QED
    BY <2>2, <2>3, <2>4 DEF Holding
<1>7. Steps(g, f[1], lines, q)
  <2>1. g[0] = f[1] /\ g[n] = q
    BY <1>1, <1>4
  <2>2. ASSUME NEW j \in 0..n - 1 PROVE g[j + 1] = Take(g[j], lines[j + 1])
    <3>1. j + 1 \in 0..n /\ j \in 0..n /\ j + 1 \in 1..n
      BY <1>1
    <3>2. f[j + 1 + 1] = Take(f[j + 1], all[j + 1 + 1]) /\ all[j + 1 + 1] = lines[j + 1]
      BY <1>3, <1>4, <3>1
    <3>. QED
      BY <3>1, <3>2
  <2>. HIDE DEF g
  <2>. QED
    BY <2>1, <2>2 DEF Steps, n
<1>. HIDE DEF g
<1>8. Holding(q, more, BlockFields(lines))
  BY <1>5, <1>6, <1>7, BlockTaken DEF NoFieldsIn
<1>. QED
  BY <1>8 DEF more

-----------------------------------------------------------------------------
(* A record that its canonical lines say, and a list that is the first of  *)
(* some records.                                                           *)
IsCanonical(r) ==
  LET lines == RenderRecord(r)
  IN  IsBlock(lines) /\ IsValid(BlockFields(lines)) /\ RecordOf(BlockFields(lines)) = r
FirstOf(list, records, k) ==
  list \in Seq(Range(records)) /\ Len(list) = k /\ \A a \in 1..k : list[a] = records[a]

LEMMA PrefixMore ==
  ASSUME NEW V, NEW records \in Seq(V), NEW k \in Nat, k + 1 \in 1..Len(records),
         NEW list, FirstOf(list, records, k)
  PROVE  FirstOf(Append(list, records[k + 1]), records, k + 1)
<1>. DEFINE R == Range(records)
            more == Append(list, records[k + 1])
<1>1. records[k + 1] \in R
  BY RangeEquality
<1>2. list \in Seq(R) /\ Len(list) = k /\ \A a \in 1..k : list[a] = records[a]
  BY DEF FirstOf
<1>. HIDE DEF R
<1>3. /\ more \in Seq(R) /\ Len(more) = k + 1 /\ more[k + 1] = records[k + 1]
      /\ \A a \in 1..k : more[a] = list[a]
  BY <1>1, <1>2, AppendProperties
<1>. HIDE DEF more
<1>4. \A a \in 1..k + 1 : a \in 1..k \/ a = k + 1
  OBVIOUS
<1>. QED
  BY <1>2, <1>3, <1>4 DEF FirstOf, more, R

LEMMA PrefixWhole ==
  ASSUME NEW V, NEW records \in Seq(V), NEW list, FirstOf(list, records, Len(records))
  PROVE  list = records
<1>. DEFINE R == Range(records)
<1>1. list \in Seq(R) /\ Len(list) = Len(records) /\ \A a \in 1..Len(list) : list[a] = records[a]
  BY DEF FirstOf
<1>2. records \in Seq(R)
  BY RangeEquality, LenProperties, SeqMonotonic DEF R
<1>. HIDE DEF R
<1>. QED
  BY <1>1, <1>2, SeqEqual

(* The canonical lines of some canonical records are read as those.        *)
Regenerates(records) ==
  LET again == ParseSurfacesBlock(RenderSurfacesBlock(records))
  IN  ~again.error /\ again.records = records

LEMMA ClosesWith ==
  ASSUME NEW p, NEW V, NEW records \in Seq(V), NEW list, NEW fields,
         records # <<>> => /\ Holding(p, list, fields) /\ DOMAIN fields # {} /\ IsValid(fields)
                           /\ Append(list, RecordOf(fields)) = records,
         records = <<>> => p = Fresh,
         ~Repeats(records)
  PROVE  ~Close(p).error /\ Close(p).records = records
<1>1. CASE records = <<>>
  <2>1. p = Fresh /\ ~Fresh.error /\ Fresh.records = records /\ Fresh.current = <<>>
    BY <1>1 DEF Fresh
  <2>2. Finish(p) = p
    BY <2>1, NoFields DEF Finish
  <2>. QED
    BY <2>1, <2>2 DEF Close
<1>2. CASE records # <<>>
  <2>1. /\ IsParser(p) /\ ~p.error /\ p.records = list /\ p.current = fields
        /\ DOMAIN fields # {} /\ IsValid(fields) /\ Append(list, RecordOf(fields)) = records
    BY <1>2 DEF Holding
  <2>2. ~Finish(p).error /\ Finish(p).records = records
    BY <2>1, FinishBy
  <2>. QED
    BY <2>1, <2>2 DEF Close
<1>. QED
  BY <1>1, <1>2

LEMMA RenderedRead ==
  ASSUME NEW V, NEW records \in Seq(V), \A r \in V : IsCanonical(r), ~Repeats(records)
  PROVE  Regenerates(records)
<1>. DEFINE blank == [key |-> "blank", value |-> Blank]
            block(i) == RenderRecord(records[i])
            fields(i) == BlockFields(block(i))
            n == Len(records)
            L == (UNION {Range(RenderRecord(r)) : r \in V}) \cup {blank}
            S == Seq(L)
            one == <<blank>>
            none == <<>>
            seqs == [i \in DOMAIN records |-> IF i = 1 THEN block(i) ELSE one \o block(i)]
            text == FlattenSeq(seqs)
<1>1. n \in Nat /\ DOMAIN records = 1..n /\ \A i \in 1..n : records[i] \in V
  BY LenProperties, ElementOfSeq
<1>2. RenderSurfacesBlock(records) = text
  BY DEF RenderSurfacesBlock
<1>3. \A i \in 1..n : /\ IsBlock(block(i)) /\ IsValid(fields(i)) /\ RecordOf(fields(i)) = records[i]
  BY <1>1 DEF IsCanonical
<1>4. ASSUME NEW i \in 1..n PROVE block(i) \in S
  <2>. DEFINE b == block(i)
              R == Range(b)
  <2>1. b \in Seq(R)
    BY <1>3 DEF IsBlock
  <2>2. R \subseteq L
    BY <1>1
  <2>. HIDE DEF b, R, L
  <2>3. b \in S
    BY <2>1, <2>2, SeqMonotonic
  <2>. HIDE DEF S, block
  <2>. QED
    BY <2>3 DEF b
<1>5. one \in S
  <2>1. blank \in L
    OBVIOUS
  <2>. HIDE DEF blank, L
  <2>. QED
    BY <2>1
<1>6. \A i \in 1..n : one \o block(i) \in S
  <2>. HIDE DEF one, block, L
  <2>. QED
    BY <1>4, <1>5, ConcatProperties
<1>7. ASSUME NEW i \in 1..n PROVE DOMAIN fields(i) # {}
  <2>1. DOMAIN fields(i) = {block(i)[j].key : j \in 1..Len(block(i))}
    BY DEF BlockFields, FieldsOf
  <2>2. 1 \in 1..Len(block(i))
    BY <1>3 DEF IsBlock
  <2>. QED
    BY <2>1, <2>2
<1>8. \A i \in 1..n : seqs[i] = IF i = 1 THEN block(i) ELSE one \o block(i)
  BY <1>1
<1>9. seqs \in [1..n -> S]
  BY <1>1, <1>4, <1>6
<1>10. blank.key = "blank"
  OBVIOUS
<1>. HIDE DEF blank, block, fields, n, L, seqs, text
<1>11. CASE n = 0
  <2>1. records = none
    BY <1>11, EmptySeq DEF n
  <2>2. seqs = none /\ text = none
    <3>1. seqs \in Seq(S) /\ Len(seqs) = 0
      <4>. HIDE DEF S
      <4>. QED
        BY <1>9, <1>11, IsASeq, LenProperties, SeqDef
    <3>2. seqs = none
      <4>. HIDE DEF S
      <4>. QED
        BY <3>1, EmptySeq
    <3>. QED
      BY <3>2 DEF FlattenSeq, text
  <2>3. After(none) = Fresh
    <3>1. Len(none) = 0
      BY EmptySeq
    <3>. QED
      BY <3>1, ParsedByStep DEF After
  <2>4. ~Close(Fresh).error /\ Close(Fresh).records = records
    BY <2>1, ClosesWith
  <2>. QED
    BY <1>2, <2>2, <2>3, <2>4 DEF Regenerates, ParseSurfacesBlock, After
<1>12. CASE n # 0
  <2>. DEFINE M == n - 1
  <2>1. M \in Nat /\ n \in Nat \ {0} /\ M + 1 = n
    BY <1>1, <1>12
  <2>2. seqs \in ListsOfLists(L) /\ Len(seqs) = n
    <3>. DEFINE T == Seq(S)
    <3>1. seqs \in T /\ Len(seqs) = n
      <4>. HIDE DEF S
      <4>. QED
        BY <1>9, <2>1, LenProperties, SeqDef
    <3>2. seqs # none
      <4>1. Len(none) = 0
        BY EmptySeq
      <4>. HIDE DEF none, T
      <4>. QED
        BY <2>1, <3>1, <4>1
    <3>. QED
      BY <3>1, <3>2 DEF ListsOfLists
  <2>3. PICK flat \in [1..n -> S] :
          /\ flat[1] = seqs[1] /\ text = flat[n]
          /\ \A k \in 1..n - 1 : flat[k + 1] = flat[k] \o seqs[k + 1]
    BY <2>2, FlattenByStep DEF text
  <2>. DEFINE P(k) == \E list : /\ FirstOf(list, records, k)
                                /\ Holding(After(flat[k + 1]), list, fields(k + 1))
              Q == {k \in 0..M : P(k)}
  <2>4. P(0)
    <3>1. Steps(ParsedOf(block(1)), Fresh, block(1), After(block(1)))
      <4>1. block(1) \in Seq(L)
        BY <1>4, <2>1
      <4>. QED
        BY <4>1, StepsWhole
    <3>2. Holding(Fresh, none, none) /\ DOMAIN none = {}
      BY NoFields DEF Holding, IsParser, Fresh
    <3>3. FirstOf(none, records, 0)
      BY EmptySeq DEF FirstOf
    <3>4. IsBlock(block(1)) /\ flat[1] = block(1)
      BY <1>3, <1>8, <2>1, <2>3
    <3>. HIDE DEF none
    <3>5. Holding(After(flat[1]), none, fields(1))
      BY <3>1, <3>2, <3>4, BlockTaken DEF fields
    <3>. QED
      BY <3>3, <3>5
  <2>5. ASSUME NEW k \in 0..M - 1, P(k) PROVE P(k + 1)
    <3>. DEFINE i == k + 1
                j == i + 1
                all == seqs[j]
    <3>1. /\ k \in Nat /\ i \in 1..n - 1 /\ i \in 1..n /\ j \in 1..n /\ j # 1
          /\ k + 1 = i /\ i + 1 = j
      BY <2>1
    <3>. HIDE DEF i, j
    <3>2. PICK list : FirstOf(list, records, k) /\ Holding(After(flat[i]), list, fields(i))
      BY <2>5 DEF i
    <3>3. flat[j] = flat[i] \o all /\ all = one \o block(j)
      BY <1>8, <2>3, <3>1
    <3>4. flat[i] \in S /\ all \in S
      BY <1>9, <2>3, <3>1
    <3>. HIDE DEF all
    <3>5. PICK f : Steps(f, After(flat[i]), all, After(flat[j]))
      BY <3>3, <3>4, StepsMore
    <3>6. /\ IsBlock(block(j)) /\ DOMAIN fields(i) # {} /\ IsValid(fields(i))
          /\ RecordOf(fields(i)) = records[i]
      BY <1>3, <1>7, <3>1
    <3>. DEFINE longer == Append(list, records[i])
    <3>7. Holding(After(flat[j]), longer, fields(j))
      <4>1. Holding(After(flat[j]), Append(list, RecordOf(fields(i))), BlockFields(block(j)))
        BY <1>10, <3>2, <3>3, <3>5, <3>6, BlockAfterBlank
      <4>. QED
        BY <3>6, <4>1 DEF fields
    <3>8. FirstOf(longer, records, i)
      BY <3>1, <3>2, PrefixMore DEF n
    <3>. HIDE DEF longer
    <3>. QED
      BY <3>1, <3>7, <3>8
  <2>6. M \in Q
    <3>1. 0 \in 0..M /\ \A k \in 0..M - 1 : k + 1 \in 0..M
      BY <2>1
    <3>. HIDE DEF P, M
    <3>2. 0 \in Q /\ \A k \in 0..M - 1 : k \in Q => k + 1 \in Q
      BY <2>4, <2>5, <3>1
    <3>. HIDE DEF Q
    <3>3. \A k \in 0..M : k \in Q
      BY <2>1, <3>2, UpTo
    <3>. QED
      BY <2>1, <3>3
  <2>7. PICK list : FirstOf(list, records, M) /\ Holding(After(text), list, fields(n))
    BY <2>1, <2>3, <2>6
  <2>8. Append(list, records[n]) = records
    <3>1. FirstOf(Append(list, records[M + 1]), records, M + 1)
      BY <2>1, <2>7, PrefixMore DEF n
    <3>. QED
      BY <2>1, <3>1, PrefixWhole DEF n
  <2>9. /\ DOMAIN fields(n) # {} /\ IsValid(fields(n)) /\ RecordOf(fields(n)) = records[n]
    BY <1>3, <1>7, <2>1
  <2>10. records # <<>>
    BY <2>1, EmptySeq DEF n
  <2>11. ~Close(After(text)).error /\ Close(After(text)).records = records
    BY <2>7, <2>8, <2>9, <2>10, ClosesWith
  <2>. QED
    BY <1>2, <2>11 DEF Regenerates, ParseSurfacesBlock, After
<1>. QED
  BY <1>11, <1>12

-----------------------------------------------------------------------------
(* What the canonical lines of a record say.                               *)
SaysNone(fields, r) ==
  /\ DOMAIN fields = {"surface", "status"}
  /\ fields["surface"] = <<r.surface>> /\ fields["status"] = <<"none">>
SaysAll(fields, r) ==
  /\ DOMAIN fields = Keys
  /\ fields["surface"] = <<r.surface>> /\ fields["status"] = <<r.status>>
  /\ fields["repo"] = r.repo /\ fields["ref"] = r.ref /\ fields["path"] = r.path
  /\ fields["conventions"] = r.conventions
  /\ fields["skills"] = IF r.skills = <<>> THEN Blank ELSE r.skills

Says(fields, lines, n) ==
  /\ DOMAIN fields = {lines[j].key : j \in 1..n}
  /\ \A j \in 1..n : fields[lines[j].key] = lines[j].value

(* Lines with different keys from a surface: line on are a block, and its  *)
(* fields are what they say.                                               *)
LEMMA BlockOf ==
  ASSUME NEW V, NEW lines \in Seq(V), NEW n \in Nat \ {0}, Len(lines) = n,
         lines[1].key = "surface",
         \A j \in 2..n : lines[j].key \in Keys \ {"surface"},
         \A j, k \in 1..n : lines[j].key = lines[k].key => j = k
  PROVE  IsBlock(lines) /\ Says(BlockFields(lines), lines, n)
<1>1. lines \in Seq(Range(lines))
  BY SeqOfRange
<1>2. IsBlock(lines)
  BY <1>1 DEF IsBlock
<1>3. DOMAIN BlockFields(lines) = {lines[j].key : j \in 1..n}
  BY DEF BlockFields, FieldsOf
<1>4. \A j \in 1..n : BlockFields(lines)[lines[j].key] = lines[j].value
  BY FieldIs DEF BlockFields
<1>. QED
  BY <1>2, <1>3, <1>4 DEF Says

LEMMA RenderedNone ==
  ASSUME NEW r, r.status = "none"
  PROVE  IsBlock(RenderRecord(r)) /\ SaysNone(BlockFields(RenderRecord(r)), r)
<1>. DEFINE a == [key |-> "surface", value |-> <<r.surface>>]
            b == [key |-> "status", value |-> <<"none">>]
            all == {a, b}
            lines == <<a, b>>
            F == BlockFields(lines)
<1>1. RenderRecord(r) = lines
  BY DEF RenderRecord
<1>2. /\ a.key = "surface" /\ a.value = <<r.surface>>
      /\ b.key = "status" /\ b.value = <<"none">>
  OBVIOUS
<1>. HIDE DEF a, b
<1>3. lines \in Seq(all) /\ Len(lines) = 2 /\ lines[1] = a /\ lines[2] = b
  OBVIOUS
<1>. HIDE DEF lines, F, all
<1>4. 1..2 = {1, 2} /\ 2..2 = {2}
  OBVIOUS
<1>5. \A j, k \in 1..2 : lines[j].key = lines[k].key => j = k
  BY <1>2, <1>3, <1>4
<1>6. \A j \in 2..2 : lines[j].key \in Keys \ {"surface"}
  BY <1>2, <1>3, <1>4 DEF Keys
<1>7. IsBlock(lines) /\ Says(F, lines, 2)
  <2>. DEFINE n == 2
  <2>1. n \in Nat \ {0} /\ Len(lines) = n /\ lines[1].key = "surface"
    BY <1>2, <1>3
  <2>2. /\ \A j, k \in 1..n : lines[j].key = lines[k].key => j = k
        /\ \A j \in 2..n : lines[j].key \in Keys \ {"surface"}
    BY <1>5, <1>6
  <2>. HIDE DEF n
  <2>3. IsBlock(lines) /\ Says(BlockFields(lines), lines, n)
    BY <1>3, <2>1, <2>2, BlockOf
  <2>. QED
    BY <2>3 DEF n, F
<1>8. DOMAIN F = {"surface", "status"}
  BY <1>2, <1>3, <1>4, <1>7 DEF Says
<1>9. F["surface"] = <<r.surface>> /\ F["status"] = <<"none">>
  BY <1>2, <1>3, <1>4, <1>7 DEF Says
<1>. QED
  BY <1>1, <1>7, <1>8, <1>9 DEF SaysNone, F

LEMMA RenderedAll ==
  ASSUME NEW r, r.status # "none"
  PROVE  IsBlock(RenderRecord(r)) /\ SaysAll(BlockFields(RenderRecord(r)), r)
<1>. DEFINE skills == IF r.skills = <<>> THEN Blank ELSE r.skills
            l1 == [key |-> "surface", value |-> <<r.surface>>]
            l2 == [key |-> "repo", value |-> r.repo]
            l3 == [key |-> "ref", value |-> r.ref]
            l4 == [key |-> "path", value |-> r.path]
            l5 == [key |-> "conventions", value |-> r.conventions]
            l6 == [key |-> "skills", value |-> skills]
            l7 == [key |-> "status", value |-> <<r.status>>]
            all == {l1, l2, l3, l4, l5, l6, l7}
            lines == <<l1, l2, l3, l4, l5, l6, l7>>
            F == BlockFields(lines)
<1>1. RenderRecord(r) = lines
  BY DEF RenderRecord
<1>2. /\ l1.key = "surface" /\ l1.value = <<r.surface>>
      /\ l2.key = "repo" /\ l2.value = r.repo
      /\ l3.key = "ref" /\ l3.value = r.ref
      /\ l4.key = "path" /\ l4.value = r.path
      /\ l5.key = "conventions" /\ l5.value = r.conventions
      /\ l6.key = "skills" /\ l6.value = skills
      /\ l7.key = "status" /\ l7.value = <<r.status>>
  <2>. HIDE DEF skills
  <2>. QED
    OBVIOUS
<1>. HIDE DEF skills, l1, l2, l3, l4, l5, l6, l7
<1>3. lines \in Seq(all)
  OBVIOUS
<1>4. /\ Len(lines) = 7 /\ lines[1] = l1 /\ lines[2] = l2 /\ lines[3] = l3 /\ lines[4] = l4
      /\ lines[5] = l5 /\ lines[6] = l6 /\ lines[7] = l7
  OBVIOUS
<1>. HIDE DEF lines, F, all
<1>5. 1..7 = {1, 2, 3, 4, 5, 6, 7} /\ 2..7 = {2, 3, 4, 5, 6, 7}
  OBVIOUS
<1>6. \A j, k \in 1..7 : lines[j].key = lines[k].key => j = k
  BY <1>2, <1>4, <1>5
<1>7. \A j \in 2..7 : lines[j].key \in Keys \ {"surface"}
  BY <1>2, <1>4, <1>5 DEF Keys
<1>8. IsBlock(lines) /\ Says(F, lines, 7)
  <2>. DEFINE n == 7
  <2>1. n \in Nat \ {0} /\ Len(lines) = n /\ lines[1].key = "surface"
    BY <1>2, <1>4
  <2>2. /\ \A j, k \in 1..n : lines[j].key = lines[k].key => j = k
        /\ \A j \in 2..n : lines[j].key \in Keys \ {"surface"}
    BY <1>6, <1>7
  <2>. HIDE DEF n
  <2>3. IsBlock(lines) /\ Says(BlockFields(lines), lines, n)
    BY <1>3, <2>1, <2>2, BlockOf
  <2>. QED
    BY <2>3 DEF n, F
<1>9. DOMAIN F = Keys
  BY <1>2, <1>4, <1>5, <1>8 DEF Keys, Says
<1>10. /\ F["surface"] = <<r.surface>> /\ F["status"] = <<r.status>>
       /\ F["repo"] = r.repo /\ F["ref"] = r.ref /\ F["path"] = r.path
       /\ F["conventions"] = r.conventions /\ F["skills"] = skills
  BY <1>2, <1>4, <1>5, <1>8 DEF Says
<1>. QED
  BY <1>1, <1>8, <1>9, <1>10 DEF SaysAll, F, skills

-----------------------------------------------------------------------------
(* The empty value is no repo and no ref.                                  *)
LEMMA BlankValue ==
  /\ Blank \in Seq(Range(Blank)) /\ Len(Blank) = 1 /\ Blank[1] = "" /\ Blank # <<>>
  /\ ~IsRepo(Blank) /\ ~IsRef(Blank)
<1>. DEFINE V == {""}
<1>1. Blank \in Seq(V) /\ Len(Blank) = 1 /\ Blank[1] = ""
  BY DEF Blank
<1>. HIDE DEF V
<1>2. Blank \in Seq(Range(Blank))
  BY <1>1, SeqOfRange
<1>3. 1 # 0 /\ 1 # 3
  OBVIOUS
<1>4. Blank # <<>>
  <2>1. Len(<<>>) = 0
    BY EmptySeq
  <2>. QED
    BY <1>1, <1>3, <2>1, Zenon
<1>5. ~IsRepo(Blank) /\ ~IsRef(Blank)
  BY <1>1, <1>3, Zenon DEF IsRepo, IsRef
<1>. QED
  BY <1>1, <1>2, <1>4, <1>5

(* A normalized path that begins with a directory is normal.               *)
LEMMA NormalizedAgain ==
  ASSUME NEW V, NEW value \in Seq(V), value # <<>>,
         NEW P, P = NormalizePath(value)
  PROVE  /\ P \in Seq(V \cup {""})
         /\ P = Root \/ P[1] \notin {"", "."} => NormalizePath(P) = P
<1>. DEFINE path == IF Len(value) > 1 /\ value[1] \in {"", "."} THEN Tail(value) ELSE value
            more == Append(path, "")
            W == V \cup {""}
<1>1. Root \in Seq(W)
  BY DEF Root
<1>2. NormalizePath(Root) = Root
  BY DEF NormalizePath
<1>3. CASE P = Root
  BY <1>1, <1>2, <1>3
<1>4. CASE P # Root
  <2>1. value \notin {Blank, Root}
    BY <1>4 DEF NormalizePath
  <2>2. P = IF path = Blank \/ Last(path) # "" THEN more ELSE path
    BY <2>1 DEF NormalizePath
  <2>3. path \in Seq(W)
    <3>1. value \in Seq(W)
      BY SeqMonotonic
    <3>2. Len(value) > 1 => Tail(value) \in Seq(W)
      <4>. HIDE DEF W
      <4>1. value # <<>>
        OBVIOUS
      <4>. QED
        BY <3>1, <4>1, HeadTailProperties
    <3>. QED
      BY <3>1, <3>2
  <2>. HIDE DEF path
  <2>4. Last(more) = "" /\ more \in Seq(W)
    <3>1. "" \in W
      OBVIOUS
    <3>. HIDE DEF W
    <3>2. /\ Len(path) \in Nat /\ Len(more) = Len(path) + 1 /\ more[Len(path) + 1] = ""
          /\ more \in Seq(W)
      BY <2>3, <3>1, LenProperties, AppendProperties
    <3>. HIDE DEF more
    <3>. QED
      BY <3>2 DEF Last
  <2>. HIDE DEF more, W
  <2>5. Last(P) = "" /\ P \in Seq(W)
    BY <2>2, <2>3, <2>4
  <2>6. ASSUME P[1] \notin {"", "."} PROVE NormalizePath(P) = P
    <3>1. P # Blank
      BY <2>6, BlankValue, Zenon
    <3>. QED
      BY <1>4, <2>5, <2>6, <3>1 DEF NormalizePath
  <2>. QED
    BY <1>4, <2>5, <2>6 DEF W
<1>. QED
  BY <1>3, <1>4

EndsWith(all, item) == Len(all) = 1 => all[1] = item
LEMMA OneMore ==
  ASSUME NEW W, NEW list \in Seq(W), NEW last \in Seq(W), Len(last) = 1
  PROVE  EndsWith(list \o last, last[1])
<1>. DEFINE all == list \o last
<1>1. Len(list) \in Nat /\ Len(all) = Len(list) + Len(last)
      /\ \A i \in 1..Len(last) : all[Len(list) + i] = last[i]
  BY ConcatProperties, LenProperties
<1>. HIDE DEF all
<1>2. Len(all) = Len(list) + 1 /\ all[Len(list) + 1] = last[1]
  BY <1>1
<1>. QED
  BY <1>1, <1>2 DEF EndsWith, all

(* The conventions a record has by default have a name.                    *)
LEMMA DefaultConventions ==
  ASSUME NEW V, NEW path \in Seq(V), NEW at, at = IF path = Root THEN <<>> ELSE Front(path)
  PROVE  at \o <<"CONVENTIONS.md">> # Blank
<1>. DEFINE last == <<"CONVENTIONS.md">>
            W == V \cup {"CONVENTIONS.md"}
            all == at \o last
<1>1. last \in Seq(W) /\ Len(last) = 1 /\ last[1] = "CONVENTIONS.md"
  OBVIOUS
<1>. HIDE DEF last
<1>2. path \in Seq(W)
  BY SeqMonotonic
<1>. HIDE DEF W
<1>3. at \in Seq(W)
  <2>1. <<>> \in Seq(W)
    BY EmptySeq
  <2>2. Len(path) \in Nat /\ \A i \in 1..Len(path) - 1 : path[i] \in W
    BY <1>2, LenProperties, ElementOfSeq
  <2>3. Front(path) \in Seq(W)
    BY <2>2, SubSeqProperties DEF Front
  <2>. QED
    BY <2>1, <2>3
<1>4. EndsWith(all, "CONVENTIONS.md")
  BY <1>1, <1>3, OneMore
<1>. HIDE DEF all
<1>5. ASSUME Len(all) = 1 PROVE all[1] = "CONVENTIONS.md"
  BY <1>4, <1>5 DEF EndsWith
<1>6. "CONVENTIONS.md" # ""
  OBVIOUS
<1>7. all # Blank
  BY <1>5, <1>6, BlankValue, Zenon
<1>. QED
  BY <1>7 DEF all, last

IsRecord(r) ==
  /\ r = [surface |-> r.surface, repo |-> r.repo, ref |-> r.ref, path |-> r.path,
          conventions |-> r.conventions, skills |-> r.skills, status |-> r.status]
  /\ r.surface \in Names /\ r.status \in Statuses
  /\ IsRepo(r.repo) /\ IsRef(r.ref)
  /\ NormalizePath(r.path) = r.path /\ r.conventions # Blank
  /\ r.skills \in Seq(Names \ {""})

LEMMA SkillsAgain ==
  ASSUME NEW skills \in Seq(Names \ {""}), NEW value,
         value = IF skills = <<>> THEN Blank ELSE skills
  PROVE  Listed(value) = skills /\ Range(skills) \subseteq Names
<1>. DEFINE V == Names \ {""}
<1>1. Range(skills) \subseteq V
  BY RangeOfSeq
<1>2. CASE skills = <<>>
  BY <1>1, <1>2, ListedNothing DEF Blank
<1>3. CASE skills # <<>>
  <2>1. "" \notin Range(skills)
    BY <1>1
  <2>2. Listed(skills) = skills
    <3>. HIDE DEF V
    <3>. QED
      BY <2>1, ListedWhole DEF V
  <2>. QED
    BY <1>1, <1>3, <2>2
<1>. QED
  BY <1>2, <1>3

(* Every record that finish() could make is canonical.                     *)
LEMMA CanonicalAll ==
  ASSUME NEW r, IsRecord(r), r.status # "none" PROVE IsCanonical(r)
<1>. DEFINE F == BlockFields(RenderRecord(r))
            skills == IF r.skills = <<>> THEN Blank ELSE r.skills
<1>1. IsBlock(RenderRecord(r)) /\ SaysAll(F, r)
  BY RenderedAll
<1>2. /\ DOMAIN F = Keys /\ F["surface"][1] = r.surface
      /\ F["status"][1] = r.status
      /\ F["repo"] = r.repo /\ F["ref"] = r.ref /\ F["path"] = r.path
      /\ F["conventions"] = r.conventions /\ F["skills"] = skills
  BY <1>1 DEF SaysAll
<1>3. Listed(skills) = r.skills /\ Range(r.skills) \subseteq Names
  BY SkillsAgain DEF IsRecord
<1>. HIDE DEF F, skills
<1>4. /\ StatusOf(F) = r.status
      /\ Get(F, "repo", Blank) = r.repo /\ Get(F, "ref", Blank) = r.ref
      /\ Get(F, "path", Blank) = r.path /\ Get(F, "conventions", Blank) = r.conventions
      /\ Get(F, "skills", Blank) = skills
  BY <1>2 DEF StatusOf, Get, Keys
<1>5. IsValid(F)
  BY <1>2, <1>3, <1>4 DEF IsValid, IsRecord
<1>6. RecordOf(F) = r
  <2>1. /\ NormalizePath(r.path) = r.path /\ r.conventions # Blank
        /\ r = [surface |-> r.surface, repo |-> r.repo, ref |-> r.ref, path |-> r.path,
                conventions |-> r.conventions, skills |-> r.skills, status |-> r.status]
    BY DEF IsRecord
  <2>2. RecordOf(F) = [surface |-> r.surface, repo |-> r.repo, ref |-> r.ref, path |-> r.path,
                       conventions |-> r.conventions, skills |-> r.skills, status |-> r.status]
    BY <1>2, <1>3, <1>4, <2>1 DEF RecordOf
  <2>. QED
    BY <2>1, <2>2
<1>. QED
  BY <1>1, <1>5, <1>6 DEF IsCanonical, F

LEMMA CanonicalNone ==
  ASSUME NEW name \in Names PROVE IsCanonical(NoneRecord(name))
<1>. DEFINE r == NoneRecord(name)
            F == BlockFields(RenderRecord(r))
<1>1. r.status = "none" /\ r.surface = name
  BY DEF NoneRecord
<1>. HIDE DEF r
<1>2. IsBlock(RenderRecord(r)) /\ SaysNone(F, r)
  BY <1>1, RenderedNone
<1>3. DOMAIN F = {"surface", "status"} /\ F["surface"][1] = name /\ F["status"][1] = "none"
  BY <1>1, <1>2 DEF SaysNone
<1>. HIDE DEF F
<1>4. StatusOf(F) = "none"
  BY <1>3 DEF StatusOf, Get
<1>5. IsValid(F)
  BY <1>3, <1>4 DEF IsValid, Statuses
<1>6. RecordOf(F) = r
  BY <1>3, <1>4 DEF RecordOf, r
<1>7. IsCanonical(r)
  BY <1>2, <1>5, <1>6 DEF IsCanonical, F
<1>. QED
  BY <1>7 DEF r

(* What finish() makes of valid fields is canonical, if the path it makes  *)
(* begins with a directory.                                                *)
LEMMA FinishedIsCanonical ==
  ASSUME NEW G, IsValid(G),
         \A key \in DOMAIN G : G[key] # <<>> /\ G[key] \in Seq(Range(G[key])),
         NEW path, path = NormalizePath(Get(G, "path", Blank)),
         path = Root \/ path[1] \notin {"", "."}
  PROVE  IsCanonical(RecordOf(G))
<1>. DEFINE name == G["surface"][1]
            status == StatusOf(G)
            given == Get(G, "conventions", Blank)
            at == IF path = Root THEN <<>> ELSE Front(path)
            conventions == IF given # Blank THEN given ELSE at \o <<"CONVENTIONS.md">>
            skills == Listed(Get(G, "skills", Blank))
            r == RecordOf(G)
<1>1. name \in Names /\ status \in Statuses
  BY DEF IsValid
<1>2. CASE status = "none"
  <2>1. r = NoneRecord(name)
    BY <1>2 DEF RecordOf
  <2>. QED
    BY <1>1, <2>1, CanonicalNone
<1>3. CASE status # "none"
  <2>1. /\ IsRepo(Get(G, "repo", Blank)) /\ IsRef(Get(G, "ref", Blank))
        /\ Range(skills) \subseteq Names
    BY <1>3 DEF IsValid
  <2>2. IsRepo(G["repo"]) /\ IsRef(G["ref"])
    BY <2>1, BlankValue DEF Get
  <2>3. \A key : Get(G, key, Blank) # <<>>
                 /\ Get(G, key, Blank) \in Seq(Range(Get(G, key, Blank)))
    BY BlankValue DEF Get
  <2>. DEFINE value == Get(G, "path", Blank)
              V == Range(value)
              W == V \cup {""}
  <2>4. path \in Seq(W) /\ NormalizePath(path) = path
    <3>1. value \in Seq(V) /\ value # <<>>
      BY <2>3
    <3>. HIDE DEF value, V
    <3>. QED
      BY <3>1, NormalizedAgain DEF value
  <2>. HIDE DEF W
  <2>5. conventions # Blank
    <3>1. CASE given # Blank
      BY <3>1
    <3>2. CASE given = Blank
      <4>1. conventions = at \o <<"CONVENTIONS.md">>
        BY <3>2
      <4>. HIDE DEF conventions, at
      <4>. QED
        BY <2>4, <4>1, DefaultConventions DEF at
    <3>. QED
      BY <3>1, <3>2
  <2>6. skills \in Seq(Names \ {""})
    <3>. DEFINE items == Get(G, "skills", Blank)
                X == Range(items)
                N == Names \ {""}
    <3>1. items \in Seq(X)
      BY <2>3
    <3>. HIDE DEF items
    <3>2. skills \in Seq(X) /\ Range(skills) = X \ {""}
      <4>. HIDE DEF X
      <4>. QED
        BY <3>1, ListedRange DEF X, items
    <3>. HIDE DEF X, skills
    <3>3. skills \in Seq(Range(skills)) /\ Range(skills) \subseteq N
      BY <2>1, <3>2, SeqOfRange
    <3>. HIDE DEF N
    <3>4. skills \in Seq(N)
      BY <3>3, SeqMonotonic
    <3>. QED
      BY <3>4 DEF N
  <2>7. r = [surface |-> name, repo |-> G["repo"], ref |-> G["ref"], path |-> path,
             conventions |-> conventions, skills |-> skills, status |-> status]
    BY <1>3 DEF RecordOf
  <2>. HIDE DEF r, conventions, skills, name, status
  <2>8. /\ r.surface = name /\ r.repo = G["repo"] /\ r.ref = G["ref"] /\ r.path = path
        /\ r.conventions = conventions /\ r.skills = skills /\ r.status = status
    BY <2>7
  <2>9. IsRecord(r)
    BY <1>1, <2>2, <2>4, <2>5, <2>6, <2>7, <2>8 DEF IsRecord
  <2>. QED
    BY <1>3, <2>8, <2>9, CanonicalAll DEF r
<1>. QED
  BY <1>2, <1>3

(* The records of a text of plain paths are canonical.                     *)
LEMMA WrittenIsCanonical ==
  ASSUME NEW text, IsText(text), WellFormed(text), PlainPaths(text), NEW r \in Records(text)
  PROVE  IsCanonical(r)
<1>1. PICK s \in Starts(text) : r = RecordOf(FieldsAt(text, s))
  BY DEF Records
<1>. DEFINE G == FieldsAt(text, s)
            path == NormalizePath(Get(G, "path", Blank))
<1>2. IsValid(G)
  BY DEF WellFormed
<1>3. s \in 1..Len(text) /\ Len(text) \in Nat /\ DOMAIN text = 1..Len(text)
  BY StartsAreLines, TextLines
<1>4. ASSUME NEW key \in DOMAIN G
      PROVE  \E j \in 1..Len(text) : text[j].key = key /\ G[key] = text[j].value
  <2>. DEFINE j == CHOOSE k \in Span(text, s) : text[k].key = key
  <2>1. \E k \in Span(text, s) : text[k].key = key
    BY DEF FieldsAt
  <2>2. j \in Span(text, s) /\ text[j].key = key
    BY <2>1
  <2>3. G[key] = text[j].value
    BY DEF FieldsAt
  <2>4. j \in 1..Len(text)
    BY <1>3, <2>2 DEF Span
  <2>. QED
    BY <2>2, <2>3, <2>4
<1>5. \A key \in DOMAIN G : G[key] # <<>> /\ G[key] \in Seq(Range(G[key]))
  BY <1>4, TextLines
<1>6. path = Root \/ path[1] \notin {"", "."}
  <2>1. CASE "path" \in DOMAIN G
    <3>1. PICK j \in 1..Len(text) : text[j].key = "path" /\ G["path"] = text[j].value
      BY <1>4, <2>1
    <3>2. text[j] \in Range(text)
      BY <1>3 DEF Range
    <3>3. path = NormalizePath(text[j].value)
      BY <2>1, <3>1 DEF Get
    <3>. HIDE DEF path
    <3>. QED
      BY <3>1, <3>2, <3>3 DEF PlainPaths
  <2>2. CASE "path" \notin DOMAIN G
    BY <2>2 DEF Get, NormalizePath
  <2>. QED
    BY <2>1, <2>2
<1>. HIDE DEF G, path
<1>7. IsCanonical(RecordOf(G))
  BY <1>2, <1>5, <1>6, FinishedIsCanonical DEF path
<1>. QED
  BY <1>1, <1>7 DEF G

-----------------------------------------------------------------------------
LEMMA BySurfaceIsKeyed ==
  ASSUME NEW records, NEW name \in DOMAIN BySurface(records)
  PROVE  /\ BySurface(records)[name] \in Range(records)
         /\ BySurface(records)[name].surface = name
  BY DEF BySurface

LEMMA BySurfaceIsTotal ==
  ASSUME NEW records, NEW r \in Range(records)
  PROVE  r.surface \in DOMAIN BySurface(records)
  BY DEF BySurface

(* A merged registry gives each surface the override's record if there is  *)
(* one, the project's otherwise.                                           *)
LEMMA MergeOverrides ==
  ASSUME NEW own, NEW override, NEW name \in DOMAIN MergeRegistries(own, override)
  PROVE  LET r == MergeRegistries(own, override)[name]
         IN  /\ r \in Range(override)
                \/ (r \in Range(own) /\ \A q \in Range(override) : q.surface # r.surface)
             /\ r.surface = name
<1>. DEFINE r == MergeRegistries(own, override)[name]
<1>1. CASE name \in DOMAIN BySurface(override)
  <2>1. r = BySurface(override)[name]
    BY <1>1 DEF MergeRegistries
  <2>. QED
    BY <1>1, <2>1, BySurfaceIsKeyed
<1>2. CASE name \notin DOMAIN BySurface(override)
  <2>1. name \in DOMAIN BySurface(own) /\ r = BySurface(own)[name]
    BY <1>2 DEF MergeRegistries
  <2>2. r \in Range(own) /\ r.surface = name
    BY <2>1, BySurfaceIsKeyed
  <2>3. \A q \in Range(override) : q.surface # name
    BY <1>2, BySurfaceIsTotal
  <2>. QED
    BY <2>2, <2>3
<1>. QED
  BY <1>1, <1>2

(* Resolution answers with the records of a story's surfaces just when     *)
(* there are some, all have one, and all are active and in the first one's *)
(* repo and ref.                                                           *)
OneTargetOf(registry, list) ==
  /\ list # <<>> /\ \A i \in DOMAIN list : list[i] \in DOMAIN registry
  /\ \A i, j \in DOMAIN list :
       /\ registry[list[i]].status = "active"
       /\ registry[list[i]].repo = registry[list[j]].repo
       /\ registry[list[i]].ref = registry[list[j]].ref

LEMMA ResolvesJustWhen ==
  ASSUME NEW registry, NEW list, list # <<>> => 1 \in DOMAIN list
  PROVE  /\ ResolveSurfaces(registry, list).reason = "ok" <=> OneTargetOf(registry, list)
         /\ OneTargetOf(registry, list) =>
              ResolveSurfaces(registry, list).surfaces = [i \in DOMAIN list |-> registry[list[i]]]
<1>. DEFINE records == [i \in DOMAIN list |-> registry[list[i]]]
            differ == \E i \in DOMAIN records :
                        records[i].status # "active" \/ ~SameRepoAndRef(records[i], records[1])
            answer == ResolveSurfaces(registry, list)
            none == <<>>
<1>1. answer = IF list = none \/ ~(Range(list) \subseteq DOMAIN registry) \/ differ
               THEN Refusal("unresolved") ELSE [reason |-> "ok", surfaces |-> records]
  BY DEF ResolveSurfaces
<1>2. Range(list) \subseteq DOMAIN registry <=> \A i \in DOMAIN list : list[i] \in DOMAIN registry
  BY DEF Range
<1>3. DOMAIN records = DOMAIN list /\ \A i \in DOMAIN list : records[i] = registry[list[i]]
  OBVIOUS
<1>4. ASSUME list # none
      PROVE  ~differ <=> \A i, j \in DOMAIN list :
                           /\ records[i].status = "active"
                           /\ records[i].repo = records[j].repo
                           /\ records[i].ref = records[j].ref
  <2>1. 1 \in DOMAIN list
    BY <1>4
  <2>. HIDE DEF records
  <2>. QED
    BY <1>3, <2>1 DEF SameRepoAndRef
<1>5. Refusal("unresolved").reason # "ok"
  BY DEF Refusal
<1>. HIDE DEF differ, answer
<1>6. OneTargetOf(registry, list) <=>
        list # none /\ Range(list) \subseteq DOMAIN registry /\ ~differ
  <2>1. OneTargetOf(registry, list) <=>
          /\ list # none /\ \A i \in DOMAIN list : list[i] \in DOMAIN registry
          /\ \A i, j \in DOMAIN list :
               /\ records[i].status = "active"
               /\ records[i].repo = records[j].repo
               /\ records[i].ref = records[j].ref
    BY <1>3 DEF OneTargetOf
  <2>. HIDE DEF records, none
  <2>. QED
    BY <1>2, <1>4, <2>1
<1>. HIDE DEF none
<1>7. CASE OneTargetOf(registry, list)
  <2>1. answer = [reason |-> "ok", surfaces |-> records]
    BY <1>1, <1>6, <1>7
  <2>. HIDE DEF records
  <2>2. answer.reason = "ok" /\ answer.surfaces = records
    BY <2>1
  <2>. QED
    BY <1>7, <2>2 DEF answer, records
<1>8. CASE ~OneTargetOf(registry, list)
  <2>1. answer = Refusal("unresolved")
    BY <1>1, <1>6, <1>8
  <2>. QED
    BY <1>5, <1>8, <2>1 DEF answer
<1>. QED
  BY <1>7, <1>8

-----------------------------------------------------------------------------
(* The records in force for a surface, and what makes a story one that can *)
(* be dispatched.                                                          *)
EffectiveOf(override, own, name) ==
  {r \in Records(override) : r.surface = name} \cup
  {r \in Records(own) : r.surface = name /\ ~Recorded(name, override)}
DispatchableFrom(override, own, names) ==
  /\ names # {} /\ \A name \in names : EffectiveOf(override, own, name) # {}
  /\ \A r, q \in UNION {EffectiveOf(override, own, name) : name \in names} :
       r.status = "active" /\ r.repo = q.repo /\ r.ref = q.ref

(* The merged registry holds the one record in force for each surface.     *)
LEMMA EffectiveIsMerged ==
  ASSUME NEW override, NEW own, IsText(override), IsText(own), NEW overrides, NEW owns,
         Range(overrides) = Records(override), Range(owns) = Records(own), NEW name
  PROVE  EffectiveOf(override, own, name) =
           IF name \in DOMAIN MergeRegistries(owns, overrides)
           THEN {MergeRegistries(owns, overrides)[name]} ELSE {}
<1>. DEFINE registry == MergeRegistries(owns, overrides)
<1>1. CASE name \in DOMAIN registry
  <2>. DEFINE r == registry[name]
  <2>1. /\ r \in Records(override)
           \/ (r \in Records(own) /\ \A q \in Records(override) : q.surface # r.surface)
        /\ r.surface = name
    BY <1>1, MergeOverrides
  <2>. HIDE DEF registry, r
  <2>2. UniqueRecords(override) /\ UniqueRecords(own)
    BY RecordsAreUnique
  <2>3. EffectiveOf(override, own, name) = {r}
    BY <2>1, <2>2 DEF EffectiveOf, Recorded, UniqueRecords
  <2>. QED
    BY <1>1, <2>3 DEF r, registry
<1>2. CASE name \notin DOMAIN registry
  <2>1. DOMAIN registry = DOMAIN BySurface(owns) \cup DOMAIN BySurface(overrides)
    BY DEF MergeRegistries
  <2>. HIDE DEF registry
  <2>2. \A r \in Records(override) \cup Records(own) : r.surface # name
    BY <1>2, <2>1, BySurfaceIsTotal
  <2>3. EffectiveOf(override, own, name) = {}
    BY <2>2 DEF EffectiveOf
  <2>. QED
    BY <1>2, <2>3 DEF registry
<1>. QED
  BY <1>1, <1>2

(* The surfaces a story is labelled with.                                  *)
LabelledWith(list, names) ==
  /\ Range(list) = names
  /\ list # <<>> => 1 \in DOMAIN list

(* A decision over two texts: a story is sent somewhere just when both are *)
(* well-formed and its surfaces have one target, and then to the records   *)
(* in force for them.                                                      *)
LEMMA DecideByRecords ==
  ASSUME NEW override, NEW own, IsText(override), IsText(own), NEW names,
         LabelledWith(surfaces, names)
  PROVE  /\ Decide(override, own).reason = "ok" <=>
              WellFormed(override) /\ WellFormed(own) /\ DispatchableFrom(override, own, names)
         /\ Decide(override, own).reason = "ok" =>
              /\ DOMAIN Decide(override, own).surfaces = DOMAIN surfaces
              /\ \A i \in DOMAIN surfaces :
                   EffectiveOf(override, own, surfaces[i]) = {Decide(override, own).surfaces[i]}
<1>. DEFINE o == ParseSurfacesBlock(override)
            p == ParseSurfacesBlock(own)
            registry == MergeRegistries(p.records, o.records)
            answer == Decide(override, own)
            none == <<>>
<1>1. AsWritten(override, o) /\ AsWritten(own, p)
  BY ParsedAsWritten
<1>2. /\ (o.error <=> ~WellFormed(override)) /\ (p.error <=> ~WellFormed(own))
      /\ WellFormed(override) => Range(o.records) = Records(override)
      /\ WellFormed(own) => Range(p.records) = Records(own)
  BY <1>1 DEF AsWritten
<1>3. answer = IF p.error \/ o.error THEN Refusal("malformed")
               ELSE IF p.records = none /\ o.records = none THEN Refusal("missing")
               ELSE ResolveSurfaces(registry, surfaces)
  BY DEF Decide
<1>4. Refusal("malformed").reason # "ok" /\ Refusal("missing").reason # "ok"
  BY DEF Refusal
<1>. HIDE DEF o, p, answer
<1>5. CASE p.error \/ o.error
  BY <1>2, <1>3, <1>4, <1>5 DEF answer
<1>6. CASE ~p.error /\ ~o.error
  <2>. DEFINE effective(name) == EffectiveOf(override, own, name)
  <2>1. /\ WellFormed(override) /\ WellFormed(own)
        /\ Range(o.records) = Records(override) /\ Range(p.records) = Records(own)
    BY <1>2, <1>6
  <2>2. \A name : effective(name) =
                    IF name \in DOMAIN registry THEN {registry[name]} ELSE {}
    BY <2>1, EffectiveIsMerged
  <2>3. p.records = none /\ o.records = none => DOMAIN registry = {}
    <3>1. Range(none) = {}
      BY RangeEquality, LenProperties DEF Range
    <3>2. DOMAIN registry = {r.surface : r \in Range(p.records)} \cup {r.surface : r \in Range(o.records)}
      BY DEF MergeRegistries, BySurface
    <3>. HIDE DEF registry, none
    <3>. QED
      BY <3>1, <3>2
  <2>. HIDE DEF registry, effective
  <2>4. \A name \in names : \E i \in DOMAIN surfaces : surfaces[i] = name
    BY DEF LabelledWith, Range
  <2>5. \A i \in DOMAIN surfaces : surfaces[i] \in names
    BY DEF LabelledWith, Range
  <2>6. surfaces = none <=> names = {}
    <3>1. Range(none) = {}
      BY RangeEquality, LenProperties DEF Range
    <3>2. surfaces # none => 1 \in DOMAIN surfaces
      BY DEF LabelledWith
    <3>. HIDE DEF none
    <3>. QED
      BY <2>5, <3>1, <3>2 DEF LabelledWith
  <2>7. OneTargetOf(registry, surfaces) <=> DispatchableFrom(override, own, names)
    <3>1. DispatchableFrom(override, own, names) <=>
            /\ names # {} /\ \A name \in names : effective(name) # {}
            /\ \A m, name \in names : \A r \in effective(m), q \in effective(name) :
                 r.status = "active" /\ r.repo = q.repo /\ r.ref = q.ref
      BY DEF DispatchableFrom, effective
    <3>2. OneTargetOf(registry, surfaces) <=>
            /\ surfaces # none /\ \A name \in names : name \in DOMAIN registry
            /\ \A m, name \in names :
                 /\ registry[m].status = "active"
                 /\ registry[m].repo = registry[name].repo
                 /\ registry[m].ref = registry[name].ref
      BY <2>4, <2>5 DEF OneTargetOf
    <3>. HIDE DEF none
    <3>. QED
      BY <2>2, <2>6, <3>1, <3>2
  <2>8. /\ ResolveSurfaces(registry, surfaces).reason = "ok" <=> OneTargetOf(registry, surfaces)
        /\ OneTargetOf(registry, surfaces) =>
             ResolveSurfaces(registry, surfaces).surfaces =
               [i \in DOMAIN surfaces |-> registry[surfaces[i]]]
    <3>1. surfaces # <<>> => 1 \in DOMAIN surfaces
      BY DEF LabelledWith
    <3>. QED
      BY <3>1, ResolvesJustWhen
  <2>9. CASE p.records = none /\ o.records = none
    <3>1. ~DispatchableFrom(override, own, names)
      BY <2>2, <2>3, <2>9 DEF DispatchableFrom, effective
    <3>. QED
      BY <1>3, <1>4, <1>6, <2>9, <3>1 DEF answer
  <2>10. CASE ~(p.records = none /\ o.records = none)
    <3>1. answer = ResolveSurfaces(registry, surfaces)
      BY <1>3, <1>6, <2>10
    <3>2. answer.reason = "ok" <=> DispatchableFrom(override, own, names)
      BY <2>7, <2>8, <3>1
    <3>3. ASSUME answer.reason = "ok"
          PROVE  /\ DOMAIN answer.surfaces = DOMAIN surfaces
                 /\ \A i \in DOMAIN surfaces : effective(surfaces[i]) = {answer.surfaces[i]}
      <4>1. answer.surfaces = [i \in DOMAIN surfaces |-> registry[surfaces[i]]]
        BY <2>8, <3>1, <3>3
      <4>2. OneTargetOf(registry, surfaces)
        BY <2>8, <3>1, <3>3
      <4>3. \A i \in DOMAIN surfaces : surfaces[i] \in DOMAIN registry
        BY <4>2 DEF OneTargetOf
      <4>. QED
        BY <2>2, <4>1, <4>3
    <3>. QED
      BY <2>1, <3>2, <3>3 DEF answer, effective
  <2>. QED
    BY <2>9, <2>10
<1>. QED
  BY <1>5, <1>6, <1>1 DEF AsWritten

-----------------------------------------------------------------------------
(* The surfaces a story is labelled with, each where its first label is.   *)
LabelAt(list, name) ==
  LET is(i) == list[i].prefix = "surface" /\ list[i].value = name
  IN  CHOOSE i \in DOMAIN list : is(i) /\ \A j \in 1..i - 1 : ~is(j)

LEMMA SurfacesAreLabelled ==
  ASSUME NEW list, list \in Seq(Range(list))
  PROVE  LET taken == ParseSurfaces(list)
         IN  /\ taken # <<>> => 1 \in DOMAIN taken
             /\ taken = [i \in DOMAIN taken |-> taken[i]]
             /\ Range(taken) = Values(list, "surface")
             /\ \A i, j \in DOMAIN taken :
                  i < j => LabelAt(list, taken[i]) < LabelAt(list, taken[j])
<1>. DEFINE set == {label \in Range(list) : label.prefix = "surface"}
            n == Len(list)
            named == Kept(list, set)
            m == Len(named)
            values == [i \in DOMAIN named |-> named[i].value]
            taken == ParseSurfaces(list)
            k == Len(taken)
            V == Range(list)
            W == Range(values)
<1>1. n \in Nat /\ DOMAIN list = 1..n /\ \A i \in 1..n : list[i] \in V
  BY LenProperties, ElementOfSeq
<1>2. named \in Seq(V) /\ Range(named) = set
  <2>1. Range(named) = V \cap set
    BY KeptRange
  <2>. QED
    BY <2>1, KeptPicks
<1>3. PICK at : Picks(at, named, list, n, set)
  BY KeptPicks
<1>4. taken = Distinct(values)
  BY DEF ParseSurfaces
<1>5. m \in Nat /\ DOMAIN named = 1..m
  <2>. HIDE DEF named, V
  <2>. QED
    BY <1>2, LenProperties
<1>6. values \in Seq(W) /\ Len(values) = m
  <2>1. values \in [1..m -> W] /\ DOMAIN values = 1..m
    BY <1>5 DEF Range
  <2>. HIDE DEF values, W, m
  <2>. QED
    BY <1>5, <2>1, SeqDef, LenProperties
<1>7. W = Values(list, "surface")
  <2>1. W = {label.value : label \in Range(named)}
    BY DEF Range
  <2>. HIDE DEF named
  <2>. QED
    BY <1>2, <2>1 DEF Values
<1>. HIDE DEF taken, W
<1>8. taken \in Seq(W) /\ Range(taken) = W
  <2>. HIDE DEF values
  <2>. QED
    BY <1>4, <1>6, DistinctFirsts, DistinctRange DEF W
<1>9. PICK to : Firsts(to, taken, values, m)
  <2>. HIDE DEF values
  <2>. QED
    BY <1>4, <1>6, DistinctFirsts
<1>10. /\ k \in Nat /\ DOMAIN taken = 1..k /\ taken = [i \in DOMAIN taken |-> taken[i]]
       /\ taken # <<>> => 1 \in DOMAIN taken
  BY <1>8, EmptySeq, LenProperties
<1>11. \A i \in 1..m : values[i] = named[i].value
  BY <1>5
<1>12. \A i \in 1..n : list[i].prefix = "surface" => list[i] \in set
  BY <1>1
<1>13. \A l \in set : l.prefix = "surface"
  OBVIOUS
<1>. HIDE DEF set, n, named, m, values, V, k
<1>14. /\ at \in [1..m -> 1..n] /\ \A a, b \in 1..m : a < b => at[a] < at[b]
       /\ \A a \in 1..m : named[a] = list[at[a]] /\ list[at[a]] \in set
       /\ \A i \in 1..n : list[i] \in set => \E a \in 1..m : at[a] = i
  BY <1>3 DEF Picks, m
<1>15. /\ to \in [1..k -> 1..m] /\ \A a, b \in 1..k : a < b => to[a] < to[b]
       /\ \A a \in 1..k :
            taken[a] = values[to[a]] /\ \A i \in 1..m : i < to[a] => values[i] # values[to[a]]
  BY <1>9 DEF Firsts, k
<1>16. ASSUME NEW a \in 1..k PROVE LabelAt(list, taken[a]) = at[to[a]]
  <2>. DEFINE is(i) == list[i].prefix = "surface" /\ list[i].value = taken[a]
              first == at[to[a]]
  <2>1. to[a] \in 1..m /\ first \in 1..n
    BY <1>14, <1>15
  <2>2. is(first)
    BY <1>11, <1>13, <1>14, <1>15, <2>1
  <2>3. ASSUME NEW j \in 1..first - 1, is(j) PROVE FALSE
    <3>1. j \in 1..n /\ j < first
      BY <1>1, <2>1
    <3>2. PICK b \in 1..m : at[b] = j
      BY <1>12, <1>14, <2>3, <3>1
    <3>3. b < to[a]
      <4>1. CASE b = to[a]
        BY <3>1, <3>2, <4>1, <2>1
      <4>2. CASE b > to[a]
        <5>1. at[to[a]] < at[b]
          BY <1>5, <1>14, <2>1, <4>2
        <5>. QED
          BY <1>1, <2>1, <3>1, <3>2, <5>1
      <4>. QED
        BY <1>5, <2>1, <4>1, <4>2
    <3>4. values[b] = taken[a]
      BY <1>11, <1>14, <2>3, <3>2
    <3>. QED
      BY <1>15, <3>3, <3>4
  <2>4. \A i \in 1..n : is(i) /\ (\A j \in 1..i - 1 : ~is(j)) => i = first
    <3>. HIDE DEF is, first
    <3>1. SUFFICES ASSUME NEW i \in 1..n, is(i), \A j \in 1..i - 1 : ~is(j) PROVE i = first
      OBVIOUS
    <3>2. ~(i < first)
      BY <1>1, <2>1, <2>3, <3>1
    <3>3. ~(first < i)
      BY <1>1, <2>1, <2>2, <3>1
    <3>. QED
      BY <1>1, <2>1, <3>2, <3>3
  <2>5. LabelAt(list, taken[a]) = CHOOSE i \in 1..n : is(i) /\ \A j \in 1..i - 1 : ~is(j)
    BY <1>1 DEF LabelAt
  <2>. HIDE DEF is, first
  <2>. QED
    BY <2>1, <2>2, <2>3, <2>4, <2>5 DEF first
<1>17. \A a, b \in 1..k : a < b => at[to[a]] < at[to[b]]
  BY <1>14, <1>15
<1>. QED
  BY <1>7, <1>8, <1>10, <1>16, <1>17 DEF taken, W

-----------------------------------------------------------------------------
LEMMA DecideIsTyped ==
  ASSUME NEW override, NEW own
  PROVE  Decide(override, own).reason \in {"ok", "malformed", "missing", "unresolved"}
  BY DEF Decide, ResolveSurfaces, Refusal

LEMMA ResolveInit == Init => ResolveInv
  BY ResolveAssumption
  DEF Init, ResolveInv, TypeOK, Remembered, Decided, Refusal, ResolveAssumption

(* A decision over one text of each history keeps the invariant.           *)
LEMMA DecisionStep ==
  ASSUME ResolveInv, NEW override \in epics, NEW own \in Owns, Conclude(Decide(override, own))
  PROVE  ResolveInv'
<1>1. TypeOK'
  BY DecideIsTyped DEF ResolveInv, TypeOK, Conclude
<1>2. Remembered'
  BY DEF ResolveInv, Remembered, Conclude
<1>3. Decided'
  <2>1. override \in epics' /\ own \in Owns' /\ surfaces' = surfaces
    BY DEF Conclude, Owns, surfaces
  <2>2. result' = Decide(override, own)'
    BY <2>1 DEF Conclude, Decide
  <2>. QED
    BY <2>1, <2>2 DEF Decided
<1>. QED
  BY <1>1, <1>2, <1>3 DEF ResolveInv

LEMMA ReadStep ==
  ASSUME ResolveInv, GetIssueDocuments \/ GetProjectDocuments PROVE ResolveInv'
<1>1. CASE /\ pc = "epic" /\ inProject /\ pc' = "project" /\ read' = epic
           /\ UNCHANGED <<labels, inProject, epic, project, attempt, result, edits, epics, projects>>
  BY <1>1 DEF ResolveInv, TypeOK, Remembered, Decided
<1>2. CASE ~inProject /\ Conclude(Decide(epic, <<>>))
  BY <1>2, DecisionStep DEF ResolveInv, Remembered, Owns
<1>3. CASE GetProjectDocuments
  BY <1>3, DecisionStep DEF ResolveInv, Remembered, GetProjectDocuments, Owns
<1>. QED
  BY <1>1, <1>2, <1>3 DEF GetIssueDocuments

LEMMA FailStep == ASSUME ResolveInv, ReadFails PROVE ResolveInv'
<1>. USE ResolveAssumption
     DEF ResolveInv, TypeOK, Remembered, Decided, Refusal, ResolveAssumption
<1>1. CASE attempt < MaxAttempts
  BY <1>1 DEF ReadFails, Conclude
<1>2. CASE attempt = MaxAttempts /\ Conclude(Refusal("unreachable"))
  BY <1>2 DEF ReadFails, Conclude
<1>. QED
  BY <1>1, <1>2 DEF ReadFails

LEMMA EditStep == ASSUME ResolveInv, Edit PROVE ResolveInv'
<1>1. TypeOK'
  BY ResolveAssumption DEF ResolveInv, TypeOK, Edit, ResolveAssumption
<1>2. Remembered'
  BY DEF ResolveInv, Remembered, Edit
<1>. QED
  BY <1>1, <1>2 DEF ResolveInv, Decided, Edit

LEMMA ResolveStep == ResolveInv /\ [Next]_vars => ResolveInv'
<1>. SUFFICES ASSUME ResolveInv, [Next]_vars PROVE ResolveInv'
  OBVIOUS
<1>1. CASE UNCHANGED vars
  BY <1>1 DEF vars, ResolveInv, TypeOK, Remembered, Decided, Owns, Decide, surfaces
<1>. QED
  BY <1>1, ReadStep, FailStep, EditStep DEF Next

LEMMA ResolveInvHolds == Spec => []ResolveInv
  BY ResolveInit, ResolveStep, PTL DEF Spec

-----------------------------------------------------------------------------
LEMMA LabelsAreList == ASSUME TypeOK PROVE labels \in Seq(Range(labels))
  BY ResolveAssumption DEF TypeOK, ResolveAssumption

LEMMA LabelledSurfaces ==
  ASSUME TypeOK PROVE LabelledWith(surfaces, Values(labels, "surface"))
  BY LabelsAreList, SurfacesAreLabelled DEF LabelledWith, surfaces

(* An empty document is a registry without records.                        *)
LEMMA EmptyText == IsText(<<>>) /\ WellFormed(<<>>) /\ Records(<<>>) = {}
<1>1. <<>> \in Documents /\ \A text \in Documents : IsText(text)
  BY ResolveAssumption DEF ResolveAssumption
<1>2. DOMAIN <<>> = {}
  BY NoFields
<1>3. Starts(<<>>) = {}
  BY <1>2 DEF Starts
<1>4. Records(<<>>) = {}
  BY <1>3 DEF Records
<1>5. WellFormed(<<>>)
  BY <1>2, <1>3 DEF WellFormed
<1>. QED
  BY <1>1, <1>4, <1>5

LEMMA TextsRead ==
  ASSUME ResolveInv
  PROVE  (\A text \in epics : IsText(text)) /\ \A text \in Owns : IsText(text)
<1>1. \A text \in Documents : IsText(text)
  BY ResolveAssumption DEF ResolveAssumption
<1>. QED
  BY <1>1, EmptyText DEF ResolveInv, TypeOK, Owns

(* A resolved story, by the two texts that decided.                        *)
LEMMA ResolvedByRecords ==
  ASSUME ResolveInv, Resolved
  PROVE  \E override \in epics, own \in Owns :
           /\ DispatchableFrom(override, own, Values(labels, "surface"))
           /\ DOMAIN result.surfaces = DOMAIN surfaces
           /\ \A i \in DOMAIN surfaces :
                 EffectiveOf(override, own, surfaces[i]) = {result.surfaces[i]}
<1>1. pc = "done" /\ result.reason = "ok"
  BY DEF ResolveInv, Remembered, Resolved
<1>2. PICK override \in epics, own \in Owns : result = Decide(override, own)
  BY <1>1 DEF ResolveInv, Decided
<1>3. IsText(override) /\ IsText(own)
  BY TextsRead
<1>4. LabelledWith(surfaces, Values(labels, "surface"))
  BY LabelledSurfaces DEF ResolveInv
<1>. QED
  BY <1>1, <1>2, <1>3, <1>4, DecideByRecords

(* The activity's state keeps its type: it never attempts more often than  *)
(* its proxy allows, and ends with one of its reasons.                     *)
THEOREM ResolveTypeCorrect == Spec => []TypeOK
<1>1. ResolveInv => TypeOK
  BY DEF ResolveInv
<1>. QED
  BY <1>1, ResolveInvHolds, PTL

(* A story is only ever dispatched into active surfaces of one repo and    *)
(* ref, whatever the documents hold and however they are rewritten between *)
(* the reads: every surface it is labelled with, each once and in the      *)
(* order of its labels (resolve-surfaces.ts, surface-registry.ts:206-258,  *)
(* story-context.ts:143-156).                                              *)
THEOREM TargetsAreLabelled == Spec => []TargetIsOneRepo
<1>1. ResolveInv => TargetIsOneRepo
  <2>. SUFFICES ASSUME ResolveInv, Resolved PROVE TargetIsOneRepo
    BY DEF TargetIsOneRepo, OneTarget
  <2>. DEFINE names == Values(labels, "surface")
              target == result.surfaces
              taken == [i \in DOMAIN target |-> target[i].surface]
  <2>1. PICK override \in epics, own \in Owns :
          /\ DispatchableFrom(override, own, names)
          /\ DOMAIN target = DOMAIN surfaces
          /\ \A i \in DOMAIN surfaces : EffectiveOf(override, own, surfaces[i]) = {target[i]}
    BY ResolvedByRecords
  <2>2. labels \in Seq(Range(labels))
    BY LabelsAreList DEF ResolveInv
  <2>3. /\ surfaces = [i \in DOMAIN surfaces |-> surfaces[i]] /\ Range(surfaces) = names
        /\ \A i, j \in DOMAIN surfaces :
             i < j => LabelAt(labels, surfaces[i]) < LabelAt(labels, surfaces[j])
    BY <2>2, SurfacesAreLabelled DEF surfaces
  <2>4. \A i \in DOMAIN surfaces :
          /\ target[i] \in UNION {EffectiveOf(override, own, name) : name \in names}
          /\ target[i].surface = surfaces[i]
    BY <2>1, <2>3 DEF EffectiveOf, Range
  <2>5. taken = surfaces
    BY <2>1, <2>3, <2>4
  <2>6. \A r, q \in Range(target) : r.status = "active" /\ r.repo = q.repo /\ r.ref = q.ref
    BY <2>1, <2>4 DEF DispatchableFrom, Range
  <2>. HIDE DEF taken
  <2>7. /\ Range(taken) = names
        /\ \A i, j \in DOMAIN taken :
             i < j => LabelAt(labels, taken[i]) < LabelAt(labels, taken[j])
    BY <2>3, <2>5
  <2>. QED
    BY <2>6, <2>7 DEF TargetIsOneRepo, OneTarget, LabelAt, taken
<1>. QED
  BY <1>1, ResolveInvHolds, PTL

(* However the documents were rewritten while the activity ran, a surface  *)
(* the epic overrode throughout is resolved to one of its overrides, one   *)
(* it never overrode to a record of the project, and none to a record that *)
(* neither held, whatever the documents say: what the parser makes of a    *)
(* text is what the text says (surface-registry.ts:101-203).               *)
THEOREM OverridesDecide == Spec => []OverrideDecides
<1>1. ResolveInv => OverrideDecides
  <2>. SUFFICES ASSUME ResolveInv, Resolved, NEW r \in Range(result.surfaces)
       PROVE  LET overridden == \E text \in epics : r \in Records(text)
                  own == inProject /\ \E text \in projects : r \in Records(text)
              IN  /\ overridden \/ own
                  /\ (\A text \in epics : Recorded(r.surface, text)) => overridden
                  /\ (\A text \in epics : ~Recorded(r.surface, text)) => own
    BY DEF OverrideDecides
  <2>1. PICK override \in epics, own \in Owns :
          /\ DOMAIN result.surfaces = DOMAIN surfaces
          /\ \A i \in DOMAIN surfaces :
                EffectiveOf(override, own, surfaces[i]) = {result.surfaces[i]}
    BY ResolvedByRecords
  <2>2. PICK name : r \in EffectiveOf(override, own, name)
    BY <2>1 DEF Range
  <2>3. \/ r \in Records(override)
        \/ r \in Records(own) /\ ~Recorded(r.surface, override)
    BY <2>2 DEF EffectiveOf
  <2>4. r \in Records(own) => inProject /\ own \in projects
    BY EmptyText DEF Owns
  <2>5. r \in Records(override) => Recorded(r.surface, override)
    BY DEF Recorded
  <2>. QED
    BY <2>3, <2>4, <2>5
<1>. QED
  BY <1>1, ResolveInvHolds, PTL

(* A story nobody rewrote a registry of meanwhile is refused just when a   *)
(* registry is malformed as a whole, or it has no surface, or one that has *)
(* no record, is not active, or is in another repo or ref than the others, *)
(* for any documents and labels (resolve-surfaces.ts, surface-registry.ts).*)
THEOREM RefusalsHaveGrounds == Spec => []RefusalsAreGrounded
<1>1. ResolveInv => RefusalsAreGrounded
  <2>. DEFINE own == IF inProject THEN project ELSE <<>>
              names == Values(labels, "surface")
  <2>. SUFFICES ASSUME ResolveInv, pc = "done", result.reason # "unreachable",
                       epics = {epic}, projects = {project}
       PROVE  Resolved <=> IF WellFormed(epic) /\ WellFormed(own)
                           THEN DispatchableFrom(epic, own, names) ELSE FALSE
    BY DEF RefusalsAreGrounded, DispatchableFrom, EffectiveOf
  <2>1. Owns = {own}
    BY DEF Owns
  <2>2. result = Decide(epic, own)
    BY <2>1 DEF ResolveInv, Decided
  <2>3. IsText(epic) /\ IsText(own)
    BY <2>1, TextsRead DEF ResolveInv, Remembered
  <2>4. LabelledWith(surfaces, names)
    BY LabelledSurfaces DEF ResolveInv
  <2>. HIDE DEF own, names
  <2>5. Decide(epic, own).reason = "ok" <=>
          WellFormed(epic) /\ WellFormed(own) /\ DispatchableFrom(epic, own, names)
    BY <2>3, <2>4, DecideByRecords
  <2>. QED
    BY <2>2, <2>5 DEF Resolved
<1>. QED
  BY <1>1, ResolveInvHolds, PTL

(* An epic's registry with plain paths, written in its canonical form and  *)
(* parsed again, holds the same records in the same order, and they are    *)
(* the records of its text (surface-registry.ts:101-172, 262-287).         *)
THEOREM RegenerationsAreStable == Spec => []RegenerationIsStable
<1>1. ResolveInv => RegenerationIsStable
  <2>. SUFFICES ASSUME ResolveInv, pc = "project", WellFormed(read), PlainPaths(read)
       PROVE  LET records == ParseSurfacesBlock(read).records
                  again == ParseSurfacesBlock(RenderSurfacesBlock(records))
              IN  ~again.error /\ again.records = records /\ Range(records) = Records(read)
    BY DEF RegenerationIsStable
  <2>. DEFINE records == ParseSurfacesBlock(read).records
              V == Records(read)
  <2>1. IsText(read)
    BY ResolveAssumption DEF ResolveInv, TypeOK, ResolveAssumption
  <2>2. records \in Seq(V) /\ Range(records) = V /\ ~Repeats(records)
    BY <2>1, ParsedAsWritten DEF AsWritten
  <2>3. \A r \in V : IsCanonical(r)
    BY <2>1, WrittenIsCanonical
  <2>. HIDE DEF records, V
  <2>4. Regenerates(records)
    BY <2>2, <2>3, RenderedRead
  <2>. QED
    BY <2>2, <2>4 DEF Regenerates, records, V
<1>. QED
  BY <1>1, ResolveInvHolds, PTL

(* The first recognized label of a kind is one of them.                    *)
LEMMA FirstIsImplied ==
  ASSUME NEW list, list \in Seq(Range(list)), NEW prefix, NEW multiplier,
         "none" \notin DOMAIN multiplier
  PROVE  LET found == First(list, prefix, DOMAIN multiplier)
         IN  (IF found = "none" THEN 1 ELSE multiplier[found])
               \in Implied(list, prefix, multiplier)
<1>. DEFINE set == {label \in Range(list) : label.prefix = prefix /\ label.value \in DOMAIN multiplier}
            kept == Kept(list, set)
            known == Values(list, prefix) \cap DOMAIN multiplier
            V == Range(list)
<1>1. kept \in Seq(V) /\ Range(kept) = set
  <2>1. Range(kept) = V \cap set
    BY KeptRange
  <2>. QED
    BY <2>1, KeptPicks
<1>2. known = {label.value : label \in set}
  BY DEF Values
<1>3. First(list, prefix, DOMAIN multiplier) = IF kept = <<>> THEN "none" ELSE kept[1].value
  BY DEF First
<1>4. kept = <<>> => set = {}
  <2>1. Range(<<>>) = {}
    BY RangeEquality, LenProperties DEF Range
  <2>. QED
    BY <1>1, <2>1
<1>5. kept # <<>> => kept[1] \in set
  <2>. HIDE DEF kept, set, V
  <2>1. kept # <<>> => Len(kept) \in Nat \ {0} /\ DOMAIN kept = 1..Len(kept)
    BY <1>1, EmptySeq, LenProperties
  <2>. QED
    BY <1>1, <2>1 DEF Range
<1>. HIDE DEF kept, set
<1>6. CASE kept = <<>>
  <2>1. known = {}
    BY <1>2, <1>4, <1>6
  <2>. QED
    BY <1>3, <1>6, <2>1 DEF Implied
<1>7. CASE kept # <<>>
  <2>1. kept[1].value \in known
    BY <1>2, <1>5, <1>7
  <2>. QED
    BY <1>3, <1>7, <2>1 DEF Implied
<1>. QED
  BY <1>6, <1>7

(* A typo in a tier or size label never costs the story its budget: the    *)
(* budget is that of a recognized label of each kind, for any labels       *)
(* (story-context.ts:73-118, dispatch-trigger.ts).                         *)
THEOREM BudgetsSurviveTypos == Spec => []TyposCostNothing
<1>1. ResolveInv => TyposCostNothing
  <2>. SUFFICES ASSUME ResolveInv PROVE TyposCostNothing
    OBVIOUS
  <2>. DEFINE tier == IF ParseTier(labels) = "none" THEN 1 ELSE TierMultiplier[ParseTier(labels)]
              size == IF ParseSize(labels) = "none" THEN 1 ELSE SizeMultiplier[ParseSize(labels)]
  <2>1. labels \in Seq(Range(labels))
    BY LabelsAreList DEF ResolveInv
  <2>2. "none" \notin DOMAIN TierMultiplier /\ "none" \notin DOMAIN SizeMultiplier
    BY DEF TierMultiplier, SizeMultiplier
  <2>3. /\ tier \in Implied(labels, "tier", TierMultiplier)
        /\ size \in Implied(labels, "size", SizeMultiplier)
    BY <2>1, <2>2, FirstIsImplied DEF ParseTier, ParseSize
  <2>4. ResolveMaxTurns(ParseTier(labels), ParseSize(labels)) = BaseMaxTurns * tier * size
    BY DEF ResolveMaxTurns
  <2>. HIDE DEF tier, size
  <2>. QED
    BY <2>3, <2>4 DEF TyposCostNothing
<1>. QED
  BY <1>1, ResolveInvHolds, PTL
=============================================================================
