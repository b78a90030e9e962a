--------------------------- MODULE ReliabilityProofs ---------------------------
(***************************************************************************)
(* Theorems about Incidents and Alerts, for any number of events, requests *)
(* and clients and any thresholds.                                         *)
(*                                                                         *)
(* Incidents.  Rows are overwritten by copies of any age, so nothing can   *)
(* be said of what a row has lost.  What holds is said of the latest       *)
(* failure: it is still to be evaluated, is being evaluated, or the        *)
(* incident it was added to is visible (Seen).  A copy with the mark of a  *)
(* recovery is dangerous only while its writer believes in it, and then    *)
(* every later failure is still to be evaluated (Recovering).  That an     *)
(* evaluation never finds its own request among those of a copy (and       *)
(* leaves without adding it) is because all copies hold only what was      *)
(* evaluated before (Counting).                                            *)
(***************************************************************************)
EXTENDS Incidents, Alerts, FiniteSetTheorems, SequenceTheorems, TLAPS

Visible == lastIn # 0 /\ (lastIn \in dismissed \/ IsOpen(lastIn))

LatestFailure(f) ==
  /\ ledger[f] = "failure"
  /\ \A k \in 1..Len(ledger) : k > f => ledger[k] = "stopped"

\* The events that no evaluation will add to a row any more.
Evaluated ==
  1..Len(ledger) \ (pending \cup (IF agg.at = "fail" THEN {agg.ev} ELSE {}))

\* A row, or a copy of one, knows of these events only.
Counted(S, r) == r.requests \subseteq S /\ r.count <= Cardinality(S)

Working ==
  /\ agg.at = "idle" => agg = NoEvaluation
  /\ agg.at = "fail" => agg.ev \in 1..Len(ledger) /\ agg.ev \notin pending
  /\ agg.at \in {"fail", "timeline"} => agg.row.status # "resolved"
  /\ agg.at \in {"count", "resolve", "notify", "timeline"} => agg.id # 0
  /\ \A c \in Client : client[c] # Quiescent => client[c].id # 0

Counting ==
  /\ Counted(Evaluated, agg.row)
  /\ \A i \in 1..Len(rows) : Counted(Evaluated, rows[i])
  /\ \A c \in Client : Counted(Evaluated, client[c].row)

Seen ==
  \A f \in 1..Len(ledger) : LatestFailure(f) /\ ~faulty =>
    f \in pending \/ (agg.at = "fail" /\ agg.ev = f) \/ Visible

Recovering ==
  agg.at = "resolve" \/ (agg.at = "notify" /\ agg.row.status = "resolved")
    => \A f \in 1..Len(ledger) : LatestFailure(f) => f \in pending

IncIInv == IncTypeOK /\ Working /\ Counting /\ Seen /\ Recovering
-----------------------------------------------------------------------------
(***************************************************************************)
(* Reading and writing rows.                                               *)
(***************************************************************************)
\* What a sequence is to a proof: a function on its positions.
LEMMA Positions ==
  ASSUME NEW s \in Seq(Nat)
  PROVE  /\ Len(s) \in Nat /\ DOMAIN s = 1..Len(s)
         /\ \A i \in 1..Len(s) : s[i] \in Nat
         /\ \A x : x \in ToSet(s) <=> \E i \in 1..Len(s) : s[i] = x
         /\ IsInjective(s) <=> \A i, j \in 1..Len(s) : s[i] = s[j] => i = j
<1>1. Len(s) \in Nat /\ DOMAIN s = 1..Len(s) /\ \A i \in 1..Len(s) : s[i] \in Nat
  OBVIOUS
<1>2. \A x : x \in ToSet(s) <=> \E i \in 1..Len(s) : s[i] = x
  BY <1>1 DEF ToSet
<1>3. IsInjective(s) <=> \A i, j \in 1..Len(s) : s[i] = s[j] => i = j
  BY <1>1 DEF IsInjective
<1> QED
  BY <1>1, <1>2, <1>3

\* A set of numbers has a least one.
LEMMA HasLeast ==
  ASSUME NEW T \in SUBSET Nat, T # {}
  PROVE  \E x \in T : \A y \in T : x <= y
<1> DEFINE R == {pair \in Nat \X Nat : pair[1] < pair[2]}
<1>1. IsWellFoundedOn(R, Nat)
  BY NatLessThanWellFounded DEF OpToRel
<1>2. PICK x \in T : \A y \in T : <<y, x>> \notin R
  BY <1>1, WFMin
<1>3. \A y \in T : ~(y < x)
  BY <1>2
<1> QED
  BY <1>3

\* What is put in front of a sequence moves its elements up.
LEMMA InFront ==
  ASSUME NEW s \in Seq(Nat), NEW id \in Nat
  PROVE  /\ <<id>> \o s \in Seq(Nat) /\ Len(<<id>> \o s) = Len(s) + 1 /\ (<<id>> \o s)[1] = id
         /\ \A i \in 2..Len(s) + 1 : (<<id>> \o s)[i] = s[i - 1]
<1>1. <<id>> \in Seq(Nat) /\ Len(<<id>>) = 1 /\ <<id>>[1] = id /\ Len(s) \in Nat
  OBVIOUS
<1>2. /\ <<id>> \o s \in Seq(Nat) /\ Len(<<id>> \o s) = Len(<<id>>) + Len(s)
      /\ \A i \in 1..Len(<<id>>) + Len(s) :
           (<<id>> \o s)[i] = IF i <= Len(<<id>>) THEN <<id>>[i] ELSE s[i - Len(<<id>>)]
  BY <1>1, ConcatProperties
<1> QED
  BY <1>1, <1>2

\* What is left of a sequence without one of its elements.
LEMMA Removed ==
  ASSUME NEW s \in Seq(Nat), NEW p \in 1..Len(s)
  PROVE  /\ RemoveAt(s, p) \in Seq(Nat) /\ Len(RemoveAt(s, p)) = Len(s) - 1
         /\ \A i \in 1..Len(s) - 1 : RemoveAt(s, p)[i] = IF i < p THEN s[i] ELSE s[i + 1]
<1> DEFINE before == SubSeq(s, 1, p - 1)
           after  == SubSeq(s, p + 1, Len(s))
           r      == RemoveAt(s, p)
<1>1. p \in Nat /\ 1 <= p /\ p <= Len(s)
  OBVIOUS
<1>2. Len(s) \in Nat /\ \A i \in 1..Len(s) : s[i] \in Nat
  OBVIOUS
<1>3. /\ before \in Seq(Nat) /\ Len(before) = p - 1
      /\ \A i \in 1..p - 1 : before[i] = s[i]
  <2>1. 1 \in Int /\ p - 1 \in Int /\ \A i \in 1..p - 1 : s[i] \in Nat
    BY <1>1, <1>2
  <2>2. /\ before \in Seq(Nat) /\ Len(before) = IF 1 <= p - 1 THEN p - 1 - 1 + 1 ELSE 0
        /\ \A i \in 1..p - 1 - 1 + 1 : before[i] = s[1 + i - 1]
    BY <2>1, SubSeqProperties
  <2> QED
    BY <1>1, <1>2, <2>2
<1>4. /\ after \in Seq(Nat) /\ Len(after) = Len(s) - p
      /\ \A i \in 1..Len(s) - p : after[i] = s[p + i]
  <2>1. p + 1 \in Int /\ Len(s) \in Int /\ \A i \in p + 1..Len(s) : s[i] \in Nat
    BY <1>1, <1>2
  <2>2. /\ after \in Seq(Nat)
        /\ Len(after) = IF p + 1 <= Len(s) THEN Len(s) - (p + 1) + 1 ELSE 0
        /\ \A i \in 1..Len(s) - (p + 1) + 1 : after[i] = s[p + 1 + i - 1]
    BY <2>1, SubSeqProperties
  <2> QED
    BY <1>1, <1>2, <2>2
<1>5. /\ r \in Seq(Nat) /\ Len(r) = Len(s) - 1
      /\ \A i \in 1..Len(s) - 1 : r[i] = IF i < p THEN s[i] ELSE s[i + 1]
  <2>1. r = before \o after
    BY DEF RemoveAt
  <2> HIDE DEF before, after, r
  <2>2. /\ r \in Seq(Nat) /\ Len(r) = Len(before) + Len(after)
        /\ \A i \in 1..Len(before) + Len(after) :
             r[i] = IF i <= Len(before) THEN before[i] ELSE after[i - Len(before)]
    BY <1>3, <1>4, <2>1, ConcatProperties
  <2>3. ASSUME NEW i \in 1..Len(s) - 1, i >= p PROVE r[i] = s[i + 1]
    <3>1. i - (p - 1) \in 1..Len(s) - p /\ p + (i - (p - 1)) = i + 1 /\ ~(i <= p - 1)
      BY <1>1, <1>2, <2>3
    <3>2. i \in 1..Len(before) + Len(after)
      BY <1>1, <1>2, <1>3, <1>4
    <3>3. r[i] = after[i - (p - 1)]
      BY <1>3, <2>2, <3>1, <3>2
    <3>4. after[i - (p - 1)] = s[p + (i - (p - 1))]
      BY <1>4, <3>1
    <3> QED
      BY <3>1, <3>3, <3>4
  <2>4. ASSUME NEW i \in 1..Len(s) - 1, i < p PROVE r[i] = s[i]
    <3>1. i \in 1..p - 1 /\ i <= p - 1 /\ i \in 1..Len(before) + Len(after)
      BY <1>1, <1>2, <1>3, <1>4, <2>4
    <3> QED
      BY <1>3, <2>2, <3>1
  <2>5. Len(r) = Len(s) - 1
    BY <1>1, <1>2, <1>3, <1>4, <2>2
  <2>6. ASSUME NEW i \in 1..Len(s) - 1 PROVE r[i] = IF i < p THEN s[i] ELSE s[i + 1]
    <3>1. i < p \/ i >= p
      BY <1>1, <1>2
    <3> QED
      BY <2>3, <2>4, <3>1
  <2> QED
    BY <2>2, <2>5, <2>6
<1> QED
  BY <1>5

\* The order of updates names every row once; a row it names moves to the front.
LEMMA MovesToFront ==
  ASSUME NEW s \in Seq(Nat), IsInjective(s), NEW p \in 1..Len(s), NEW t \in Seq(Nat),
         Len(t) = Len(s), t[1] = s[p],
         \A i \in 2..Len(s) : t[i] = IF i <= p THEN s[i - 1] ELSE s[i]
  PROVE  IsInjective(t) /\ ToSet(t) = ToSet(s)
<1>1. Len(s) \in Nat /\ p \in Nat /\ 1 <= p /\ p <= Len(s)
  BY Positions
<1> DEFINE from(i) == IF i = 1 THEN p ELSE IF i <= p THEN i - 1 ELSE i
<1>8. ASSUME NEW i \in 1..Len(s) PROVE from(i) \in 1..Len(s) /\ t[i] = s[from(i)]
  <2>1. CASE i = 1
    BY <1>1, <2>1
  <2>2. CASE i # 1
    <3>1. i \in 2..Len(s) /\ from(i) = IF i <= p THEN i - 1 ELSE i
      BY <1>1, <2>2
    <3>2. from(i) \in 1..Len(s)
      BY <1>1, <3>1
    <3>3. t[i] = IF i <= p THEN s[i - 1] ELSE s[i]
      BY <3>1
    <3>4. CASE i <= p
      BY <3>1, <3>2, <3>3, <3>4
    <3>5. CASE ~(i <= p)
      BY <3>1, <3>2, <3>3, <3>5
    <3> QED
      BY <3>4, <3>5
  <2> QED
    BY <2>1, <2>2
<1>9. \A i, j \in 1..Len(s) : from(i) = from(j) => i = j
  BY <1>1
<1>10. \A k \in 1..Len(s) : \E i \in 1..Len(s) : from(i) = k
  <2> SUFFICES ASSUME NEW k \in 1..Len(s) PROVE \E i \in 1..Len(s) : from(i) = k
    OBVIOUS
  <2>1. CASE k = p
    BY <2>1, <1>1
  <2>2. CASE k < p
    <3>1. k + 1 \in 1..Len(s) /\ from(k + 1) = k
      BY <2>2, <1>1
    <3> QED
      BY <3>1
  <2>3. CASE k > p
    <3>1. from(k) = k
      BY <2>3, <1>1
    <3> QED
      BY <3>1
  <2> QED
    BY <2>1, <2>2, <2>3, <1>1
<1> HIDE DEF from
<1>11. IsInjective(t)
  <2>1. \A i, j \in 1..Len(s) : s[i] = s[j] => i = j
    BY Positions
  <2>2. ASSUME NEW i \in 1..Len(s), NEW j \in 1..Len(s), t[i] = t[j] PROVE i = j
    <3>1. /\ from(i) \in 1..Len(s) /\ from(j) \in 1..Len(s)
          /\ t[i] = s[from(i)] /\ t[j] = s[from(j)]
      BY <1>8
    <3>2. PICK a \in 1..Len(s), b \in 1..Len(s) :
            a = from(i) /\ b = from(j) /\ t[i] = s[a] /\ t[j] = s[b]
      BY <3>1
    <3>3. s[a] = s[b]
      BY <2>2, <3>2
    <3>4. a = b
      BY <2>1, <3>3
    <3> QED
      BY <1>9, <3>2, <3>4
  <2>3. IsInjective(t) <=> \A i, j \in 1..Len(t) : t[i] = t[j] => i = j
    BY Positions
  <2> QED
    BY <2>2, <2>3
<1>12. ToSet(t) = ToSet(s)
  <2>1. ASSUME NEW i \in 1..Len(s) PROVE \E k \in 1..Len(s) : s[k] = t[i]
    <3>1. from(i) \in 1..Len(s) /\ t[i] = s[from(i)]
      BY <1>8
    <3> QED
      BY <3>1
  <2>2. ASSUME NEW k \in 1..Len(s) PROVE \E i \in 1..Len(s) : t[i] = s[k]
    <3>1. PICK i \in 1..Len(s) : from(i) = k
      BY <1>10
    <3>2. t[i] = s[from(i)]
      BY <1>8
    <3> QED
      BY <3>1, <3>2
  <2>3. /\ \A x : x \in ToSet(s) <=> \E i \in 1..Len(s) : s[i] = x
        /\ \A x : x \in ToSet(t) <=> \E i \in 1..Len(t) : t[i] = x
    BY Positions
  <2>4. ASSUME NEW x PROVE x \in ToSet(t) <=> x \in ToSet(s)
    BY <2>1, <2>2, <2>3
  <2> QED
    BY <2>4
<1> QED
  BY <1>11, <1>12

\* A new row comes in front of all others.
LEMMA ComesFirst ==
  ASSUME NEW s \in Seq(Nat), IsInjective(s), NEW id \in Nat, id \notin ToSet(s), NEW t \in Seq(Nat),
         Len(t) = Len(s) + 1, t[1] = id, \A i \in 2..Len(s) + 1 : t[i] = s[i - 1]
  PROVE  IsInjective(t) /\ ToSet(t) = ToSet(s) \cup {id}
<1>0. Len(s) \in Nat /\ \A i, j \in 1..Len(s) : s[i] = s[j] => i = j
  BY Positions
<1>3. Len(s) \in Nat /\ \A x : x \in ToSet(s) <=> \E i \in 1..Len(s) : s[i] = x
  BY Positions
<1>4. t[1] = id /\ \A i \in 2..Len(t) : i - 1 \in 1..Len(s) /\ t[i] = s[i - 1] /\ t[i] # id
  BY <1>3
<1>5. \A i, j \in 1..Len(t) : t[i] = t[j] => i = j
  <2> SUFFICES ASSUME NEW i \in 1..Len(t), NEW j \in 1..Len(t), t[i] = t[j] PROVE i = j
    OBVIOUS
  <2>1. CASE i = 1 \/ j = 1
    BY <1>3, <1>4, <2>1
  <2>2. CASE i # 1 /\ j # 1
    <3>1. i \in 2..Len(t) /\ j \in 2..Len(t)
      BY <1>3, <2>2
    <3>2. i - 1 = j - 1
      BY <1>0, <1>4, <3>1
    <3> QED
      BY <3>1, <3>2
  <2> QED
    BY <2>1, <2>2
<1>6. ASSUME NEW x PROVE x \in ToSet(t) <=> x \in ToSet(s) \cup {id}
  <2>1. x \in ToSet(t) <=> \E i \in 1..Len(t) : t[i] = x
    BY Positions
  <2>2. ASSUME NEW i \in 1..Len(t), t[i] = x PROVE x \in ToSet(s) \cup {id}
    <3>1. i = 1 \/ i \in 2..Len(t)
      BY <1>3
    <3> QED
      BY <1>3, <1>4, <2>2, <3>1
  <2>3. ASSUME NEW k \in 1..Len(s), s[k] = x PROVE \E i \in 1..Len(t) : t[i] = x
    <3>1. PICK m \in 2..Len(s) + 1 : m - 1 = k /\ m \in 1..Len(t)
      BY <1>3
    <3>2. t[m] = s[m - 1]
      BY <3>1
    <3> QED
      BY <2>3, <3>1, <3>2
  <2>4. 1 \in 1..Len(t)
    BY <1>3
  <2> QED
    BY <1>3, <1>4, <2>1, <2>2, <2>3, <2>4
<1>7. IsInjective(t)
  BY <1>5, Positions
<1> QED
  BY <1>6, <1>7

\* A lookup returns an unresolved incident or none.
LEMMA FoundIsOpen ==
  ASSUME IncTypeOK
  PROVE  /\ FindOpenIncident \in 0..Len(rows)
         /\ FindOpenIncident # 0 => IsOpen(FindOpenIncident)
<1> DEFINE open == {i \in 1..Len(order) : IsOpen(order[i])}
           first == CHOOSE i \in open : \A k \in open : i <= k
<1>1. Len(order) \in Nat /\ Len(rows) \in Nat /\ \A i \in 1..Len(order) : order[i] \in 1..Len(rows)
  BY DEF IncTypeOK, ToSet
<1>2. CASE open = {}
  BY <1>1, <1>2 DEF FindOpenIncident
<1>3. CASE open # {}
  <2>1. open \in SUBSET Nat
    BY <1>1
  <2>2. \E i \in open : \A k \in open : i <= k
    BY <1>3, <2>1, HasLeast
  <2>3. first \in open
    BY <2>2
  <2>4. FindOpenIncident = order[first]
    BY <1>3 DEF FindOpenIncident
  <2> HIDE DEF first
  <2> QED
    BY <1>1, <2>3, <2>4
<1> QED
  BY <1>2, <1>3

\* What is read is a row that was not resolved.
LEMMA ReadIsOpen ==
  ASSUME IncTypeOK
  PROVE  /\ ReadRow(FindOpenIncident) \in Row
         /\ ReadRow(FindOpenIncident).status # "resolved"
<1>1. NewRow \in Row /\ NewRow.status = "open"
  BY IncidentAssumption DEF NewRow, Row, IncidentStatus
<1>2. \A i \in 1..Len(rows) : rows[i] \in Row
  BY DEF IncTypeOK
<1>3. Len(rows) \in Nat
  BY DEF IncTypeOK
<1> QED
  BY <1>1, <1>2, <1>3, FoundIsOpen DEF ReadRow, IsOpen

\* A row that is put is there, and the others are as they were.
LEMMA PutRow ==
  ASSUME IncTypeOK, NEW id \in 0..Len(rows), NEW row \in Row, Put(id, row)
  PROVE  LET at == IF id = 0 THEN Len(rows) + 1 ELSE id IN
         /\ rows' \in Seq(Row) /\ at \in 1..Len(rows')
         /\ Len(rows') \in Nat /\ Len(rows) \in Nat /\ Len(rows) <= Len(rows')
         /\ rows'[at] = row
         /\ \A i \in 1..Len(rows') : i # at => i \in 1..Len(rows) /\ rows'[i] = rows[i]
         /\ order' \in Seq(Nat) /\ ToSet(order') = 1..Len(rows') /\ IsInjective(order')
<1>1. /\ rows \in Seq(Row) /\ Len(rows) \in Nat
      /\ order \in Seq(Nat) /\ ToSet(order) = 1..Len(rows) /\ IsInjective(order)
  BY DEF IncTypeOK
<1>2. CASE id = 0
  <2>1. rows' = Append(rows, row) /\ order' = <<Len(rows) + 1>> \o order
    BY <1>2 DEF Put
  <2>2. /\ rows' \in Seq(Row) /\ Len(rows') = Len(rows) + 1 /\ rows'[Len(rows) + 1] = row
        /\ \A i \in 1..Len(rows) : rows'[i] = rows[i]
    BY <1>1, <2>1
  <2>3. /\ order' \in Seq(Nat) /\ IsInjective(order')
        /\ ToSet(order') = ToSet(order) \cup {Len(rows) + 1}
    <3>1. Len(rows) + 1 \in Nat /\ Len(rows) + 1 \notin ToSet(order)
      BY <1>1
    <3>2. /\ order' \in Seq(Nat) /\ Len(order') = Len(order) + 1 /\ order'[1] = Len(rows) + 1
          /\ \A i \in 2..Len(order) + 1 : order'[i] = order[i - 1]
      BY <1>1, <2>1, <3>1, InFront
    <3> QED
      BY <1>1, <3>1, <3>2, ComesFirst
  <2>4. 1..Len(rows) \cup {Len(rows) + 1} = 1..Len(rows')
    BY <1>1, <2>2
  <2> QED
    BY <1>1, <1>2, <2>2, <2>3, <2>4
<1>3. CASE id # 0
  <2>1. /\ rows' = [rows EXCEPT ![id] = row]
        /\ order' = <<id>> \o RemoveAt(order, CHOOSE i \in 1..Len(order) : order[i] = id)
    BY <1>3 DEF Put
  <2>2. id \in 1..Len(rows)
    BY <1>1, <1>3
  <2>3. /\ rows' \in Seq(Row) /\ Len(rows') = Len(rows) /\ rows'[id] = row
        /\ \A i \in 1..Len(rows) : i # id => rows'[i] = rows[i]
    BY <1>1, <2>1, <2>2
  <2>4. PICK p \in 1..Len(order) : order[p] = id /\ order' = <<id>> \o RemoveAt(order, p)
    <3>1. id \in ToSet(order)
      BY <1>1, <2>2
    <3>2. \E i \in 1..Len(order) : order[i] = id
      BY <1>1, <3>1, Positions
    <3> QED
      BY <2>1, <3>2
  <2>5. order' \in Seq(Nat) /\ IsInjective(order') /\ ToSet(order') = ToSet(order)
    <3> DEFINE r == RemoveAt(order, p)
    <3>0. order \in Seq(Nat) /\ Len(order) \in Nat
      BY <1>1
    <3>1. /\ r \in Seq(Nat) /\ Len(r) = Len(order) - 1
          /\ \A i \in 1..Len(order) - 1 : r[i] = IF i < p THEN order[i] ELSE order[i + 1]
      BY <3>0, Removed
    <3> HIDE DEF r
    <3>2. id \in Nat /\ order' = <<id>> \o r
      BY <2>4 DEF r
    <3>3. /\ order' \in Seq(Nat) /\ Len(order') = Len(r) + 1 /\ order'[1] = id
          /\ \A i \in 2..Len(r) + 1 : order'[i] = r[i - 1]
      BY <3>1, <3>2, InFront
    <3>4. ASSUME NEW i \in 2..Len(order)
          PROVE  order'[i] = IF i <= p THEN order[i - 1] ELSE order[i]
      <4>1. /\ i \in 2..Len(r) + 1 /\ i - 1 \in 1..Len(order) - 1 /\ i - 1 + 1 = i
            /\ i - 1 < p <=> i <= p
        BY <3>0, <3>1
      <4>2. order'[i] = r[i - 1]
        BY <3>3, <4>1
      <4>3. r[i - 1] = IF i - 1 < p THEN order[i - 1] ELSE order[i - 1 + 1]
        BY <3>1, <4>1
      <4> QED
        BY <4>1, <4>2, <4>3
    <3>5. Len(order') = Len(order) /\ order'[1] = order[p]
      <4>1. Len(order') = Len(order)
        BY <3>0, <3>1, <3>3
      <4> QED
        BY <2>4, <3>3, <4>1
    <3> QED
      BY <1>1, <3>3, <3>4, <3>5, MovesToFront
  <2> QED
    BY <1>1, <1>3, <2>2, <2>3, <2>5
<1> QED
  BY <1>2, <1>3
-----------------------------------------------------------------------------
(***************************************************************************)
(* What a step has to do for the parts of the invariant.                   *)
(***************************************************************************)
\* Sets of numbers up to a bound are finite.
LEMMA NumbersAreFinite ==
  ASSUME NEW n \in Nat, NEW S \in SUBSET (1..n)
  PROVE  IsFiniteSet(S) /\ Cardinality(S) \in Nat /\ Cardinality(S) <= n
<1>1. IsFiniteSet(1..n) /\ Cardinality(1..n) = n
  BY FS_Interval
<1>2. IsFiniteSet(S) /\ Cardinality(S) <= Cardinality(1..n)
  BY <1>1, FS_Subset
<1> QED
  BY <1>1, <1>2, FS_CardinalityType

\* What is known of few events is known of more.
LEMMA CountedOfMore ==
  ASSUME NEW n \in Nat, NEW T \in SUBSET (1..n), NEW S \in SUBSET T, NEW r \in Row, Counted(S, r)
  PROVE  Counted(T, r)
<1>1. IsFiniteSet(T) /\ IsFiniteSet(S) /\ Cardinality(S) \in Nat /\ Cardinality(T) \in Nat
  BY NumbersAreFinite
<1>2. Cardinality(S) <= Cardinality(T)
  BY <1>1, FS_Subset
<1>3. r.count \in Int
  BY IncidentAssumption DEF Row
<1>4. r.requests \subseteq S /\ r.count <= Cardinality(S)
  BY DEF Counted
<1>5. r.count <= Cardinality(T)
  BY <1>1, <1>2, <1>3, <1>4
<1> QED
  BY <1>4, <1>5 DEF Counted

\* Rows and copies that are not new know of nothing new.
LEMMA CountingKept ==
  ASSUME IncIInv, IncTypeOK', Evaluated \subseteq Evaluated',
         agg'.row = agg.row \/ Counted(Evaluated', agg'.row),
         \A i \in 1..Len(rows') :
           \/ i \in 1..Len(rows) /\ rows'[i] = rows[i]
           \/ Counted(Evaluated', rows'[i]),
         \A c \in Client :
           client'[c].row = client[c].row \/ Counted(Evaluated', client'[c].row)
  PROVE  Counting'
<1>1. /\ Len(ledger') \in Nat /\ Evaluated' \in SUBSET (1..Len(ledger'))
      /\ Evaluated \in SUBSET Evaluated'
  BY DEF IncTypeOK, Evaluated
<1>2. /\ agg.row \in Row /\ \A i \in 1..Len(rows) : rows[i] \in Row
      /\ \A c \in Client : client[c].row \in Row
  BY DEF IncIInv, IncTypeOK
<1>3. \A r \in Row : Counted(Evaluated, r) => Counted(Evaluated', r)
  BY <1>1, CountedOfMore
<1>4. Counted(Evaluated', agg'.row)
  BY <1>2, <1>3 DEF IncIInv, Counting
<1>5. \A i \in 1..Len(rows') : Counted(Evaluated', rows'[i])
  BY <1>2, <1>3 DEF IncIInv, Counting
<1>6. \A c \in Client : Counted(Evaluated', client'[c].row)
  BY <1>2, <1>3 DEF IncIInv, Counting
<1> QED
  BY <1>4, <1>5, <1>6 DEF Counting

\* The empty row knows of nothing.
LEMMA NewRowIsCounted ==
  ASSUME NEW n \in Nat, NEW S \in SUBSET (1..n)
  PROVE  NewRow \in Row /\ Counted(S, NewRow)
<1>1. Cardinality(S) \in Nat
  BY NumbersAreFinite
<1> QED
  BY <1>1, IncidentAssumption DEF NewRow, Row, IncidentStatus, Counted

\* An incident that is visible stays so, unless it is resolved by somebody else
\* than a client.
LEMMA PutVisible ==
  ASSUME IncTypeOK, NEW id \in 0..Len(rows), NEW row \in Row, Put(id, row), Visible,
         lastIn' = lastIn, dismissed \subseteq dismissed',
         row.status # "resolved" \/ id \in dismissed'
  PROVE  Visible'
<1>1. lastIn \in 1..Len(rows) /\ Len(rows) \in Nat
  BY DEF IncTypeOK, Visible
<1>2. CASE lastIn \in dismissed
  BY <1>2 DEF Visible
<1>3. CASE lastIn \notin dismissed
  <2>1. rows[lastIn].status # "resolved"
    BY <1>3 DEF Visible, IsOpen
  <2>2. CASE lastIn = id
    <3>1. rows'[id] = row
      BY <1>1, <2>2, PutRow
    <3> QED
      BY <1>1, <2>2, <3>1 DEF Visible, IsOpen
  <2>3. CASE lastIn # id
    <3>1. rows'[lastIn] = rows[lastIn]
      BY <1>1, <2>3, PutRow
    <3> QED
      BY <1>1, <2>1, <3>1 DEF Visible, IsOpen
  <2> QED
    BY <2>2, <2>3
<1> QED
  BY <1>2, <1>3

\* The latest failure does not get lost between the mutex and the incident.
LEMMA SeenKept ==
  ASSUME IncIInv, ledger' = ledger, faulty => faulty',
         \A f \in pending :
            f \in pending' \/ (agg'.at = "fail" /\ agg'.ev = f) \/ ~LatestFailure(f),
         agg.at = "fail" => (agg'.at = "fail" /\ agg'.ev = agg.ev) \/ faulty' \/ Visible',
         \/ Visible => Visible'
         \/ \A f \in 1..Len(ledger) : LatestFailure(f) => f \in pending
  PROVE  Seen'
<1> SUFFICES ASSUME NEW f \in 1..Len(ledger), LatestFailure(f), ~faulty'
             PROVE  f \in pending' \/ (agg'.at = "fail" /\ agg'.ev = f) \/ Visible'
  BY DEF Seen, LatestFailure
<1>1. f \in pending \/ (agg.at = "fail" /\ agg.ev = f) \/ Visible
  BY DEF IncIInv, Seen
<1> QED
  BY <1>1
-----------------------------------------------------------------------------
(***************************************************************************)
(* Requests end, and are evaluated.                                        *)
(***************************************************************************)
LEMMA PublishKeeps ==
  ASSUME IncIInv, NEW result \in {"success", "failure", "stopped"}, Publish(result)
  PROVE  IncIInv'
<1> DEFINE n == Len(ledger) + 1
<1>1. /\ ledger' = Append(ledger, result) /\ pending' = pending \cup {n}
      /\ Len(ledger) < MaxEvents
      /\ UNCHANGED <<agg, rows, order, client, edits, faulty, lastIn, dismissed>>
  BY DEF Publish
<1>2. /\ ledger \in Seq({"success", "failure", "stopped"}) /\ Len(ledger) \in Nat
      /\ pending \subseteq 1..Len(ledger)
  BY DEF IncIInv, IncTypeOK
<1>3. /\ ledger' \in Seq({"success", "failure", "stopped"}) /\ Len(ledger') = n
      /\ ledger'[n] = result /\ \A i \in 1..Len(ledger) : ledger'[i] = ledger[i]
  BY <1>1, <1>2
<1>4. IncTypeOK'
  <2>1. Len(ledger') <= MaxEvents
    BY <1>1, <1>2, <1>3, IncidentAssumption
  <2>2. pending' \subseteq 1..Len(ledger')
    <3>1. 1..Len(ledger) \subseteq 1..Len(ledger') /\ n \in 1..Len(ledger')
      BY <1>2, <1>3
    <3> QED
      BY <1>1, <1>2, <3>1
  <2> QED
    BY <1>1, <1>3, <2>1, <2>2 DEF IncIInv, IncTypeOK
<1>5. Working'
  BY <1>1, <1>2, <1>3 DEF IncIInv, Working
<1>6. Evaluated' = Evaluated
  BY <1>1, <1>2, <1>3 DEF IncIInv, Working, Evaluated
<1>7. Counting'
  BY <1>1, <1>6 DEF IncIInv, Counting
<1>8. ASSUME NEW f \in 1..Len(ledger'), LatestFailure(f)'
      PROVE  f = n \/ (f \in 1..Len(ledger) /\ LatestFailure(f))
  <2>1. CASE f # n
    <3>1. f \in 1..Len(ledger) /\ \A k \in 1..Len(ledger) : k \in 1..Len(ledger')
      BY <1>2, <1>3, <2>1
    <3>2. ledger[f] = "failure"
      BY <1>3, <1>8, <3>1 DEF LatestFailure
    <3>3. \A k \in 1..Len(ledger) : k > f => ledger[k] = "stopped"
      BY <1>3, <1>8, <3>1 DEF LatestFailure
    <3> QED
      BY <3>1, <3>2, <3>3 DEF LatestFailure
  <2> QED
    BY <2>1
<1>9. Seen'
  BY <1>1, <1>8 DEF IncIInv, Seen, Visible, IsOpen
<1>10. Recovering'
  BY <1>1, <1>8 DEF IncIInv, Recovering
<1> QED
  BY <1>4, <1>5, <1>7, <1>9, <1>10 DEF IncIInv

\* An evaluation takes the event from the queue and notes the open incident.
LEMMA FindIncidentKeeps ==
  ASSUME IncIInv, NEW e \in pending, FindIncident(e)
  PROVE  IncIInv'
<1> DEFINE id == FindOpenIncident
<1>1. /\ agg = NoEvaluation /\ pending' = pending \ {e}
      /\ UNCHANGED <<ledger, rows, order, client, edits, faulty, lastIn, dismissed>>
  BY DEF FindIncident
<1>2. /\ Len(ledger) \in Nat /\ pending \subseteq 1..Len(ledger) /\ Len(ledger) <= MaxEvents
      /\ e \in 1..Len(ledger) /\ ledger[e] \in {"success", "failure", "stopped"}
      /\ agg.at = "idle"
  BY <1>1 DEF IncIInv, IncTypeOK, NoEvaluation
<1>3. CASE agg' = agg /\ ledger[e] # "failure"
  <2>1. IncTypeOK'
    BY <1>1, <1>2, <1>3 DEF IncIInv, IncTypeOK
  <2>2. Evaluated \subseteq Evaluated'
    BY <1>1, <1>2, <1>3 DEF Evaluated
  <2>3. Counting'
    BY <1>1, <1>3, <2>1, <2>2, CountingKept
  <2>4. ~LatestFailure(e)
    BY <1>3 DEF LatestFailure
  <2>5. Seen'
    BY <1>1, <1>2, <1>3, <2>4, SeenKept DEF Visible, IsOpen
  <2> QED
    BY <1>1, <1>2, <1>3, <2>1, <2>3, <2>5 DEF IncIInv, Working, Recovering
<1>4. CASE /\ agg' = [at |-> IF ledger[e] = "success" THEN "count" ELSE "fail",
                      ev |-> e, id |-> id, row |-> ReadRow(id)]
           /\ ledger[e] = "success" => id # 0
  <2>1. /\ agg'.at \in {"count", "fail"} /\ agg'.ev = e /\ agg'.id = id /\ agg'.row = ReadRow(id)
        /\ agg'.at = "count" => id # 0
        /\ ledger[e] = "failure" => agg'.at = "fail"
    BY <1>4
  <2>2. IncTypeOK
    BY DEF IncIInv
  <2>3. id \in 0..Len(rows) /\ Len(rows) \in Nat /\ (id # 0 => IsOpen(id))
    BY <2>2, FoundIsOpen DEF IncTypeOK
  <2>4. ReadRow(id) \in Row /\ ReadRow(id).status # "resolved"
    BY <2>2, ReadIsOpen
  <2> HIDE DEF id
  <2>5. agg' \in [at : {"idle", "count", "resolve", "fail", "notify", "timeline"},
                  ev : 0..MaxEvents, id : 0..Len(rows), row : Row]
    BY <1>2, <1>4, <2>3, <2>4, IncidentAssumption
  <2>6. IncTypeOK'
    BY <1>1, <1>2, <2>5 DEF IncIInv, IncTypeOK
  <2>7. Evaluated \subseteq Evaluated' /\ Evaluated' \in SUBSET (1..Len(ledger'))
    BY <1>1, <1>2, <2>1 DEF Evaluated
  <2>8. Counted(Evaluated', ReadRow(id))
    <3>1. CASE id = 0
      BY <1>1, <1>2, <2>7, <3>1, NewRowIsCounted DEF ReadRow
    <3>2. CASE id # 0
      <4>1. id \in 1..Len(rows) /\ ReadRow(id) = rows[id]
        BY <2>3, <3>2 DEF ReadRow
      <4>2. Counted(Evaluated, ReadRow(id))
        BY <4>1 DEF IncIInv, Counting
      <4> QED
        BY <1>1, <1>2, <2>4, <2>7, <4>2, CountedOfMore
    <3> QED
      BY <3>1, <3>2
  <2>9. Counting'
    BY <1>1, <2>1, <2>6, <2>7, <2>8, CountingKept
  <2>10. Seen'
    <3>1. ~(agg'.at = "fail" /\ agg'.ev = e) => ~LatestFailure(e)
      BY <2>1 DEF LatestFailure
    <3> QED
      BY <1>1, <1>2, <3>1, SeenKept DEF Visible, IsOpen
  <2>11. Working'
    BY <1>1, <1>2, <2>1, <2>4 DEF IncIInv, Working
  <2> QED
    BY <2>1, <2>6, <2>9, <2>10, <2>11 DEF IncIInv, Recovering
<1> QED
  BY <1>2, <1>3, <1>4 DEF FindIncident

\* The results are counted: the copy is to be resolved only when the latest one
\* is no failure.
LEMMA CountSuccessesKeeps ==
  ASSUME IncIInv, CountSuccesses
  PROVE  IncIInv'
<1>1. /\ agg.at = "count" /\ Len(ledger) \in Nat
      /\ UNCHANGED <<ledger, pending, rows, order, client, edits, faulty, lastIn, dismissed>>
      /\ agg \in [at : {"idle", "count", "resolve", "fail", "notify", "timeline"},
                  ev : 0..MaxEvents, id : 0..Len(rows), row : Row]
  BY DEF CountSuccesses, IncIInv, IncTypeOK
<1>2. NewRow \in Row /\ Counted(Evaluated, NewRow) /\ Evaluated \in SUBSET (1..Len(ledger))
  <2>1. Evaluated \in SUBSET (1..Len(ledger))
    BY DEF Evaluated
  <2> QED
    BY <1>1, <2>1, NewRowIsCounted
<1>3. CASE agg' = NoEvaluation
  <2>1. /\ agg'.at = "idle" /\ agg'.row = NewRow
        /\ agg' \in [at : {"idle", "count", "resolve", "fail", "notify", "timeline"},
                     ev : 0..MaxEvents, id : 0..Len(rows), row : Row]
    BY <1>1, <1>2, <1>3, IncidentAssumption DEF NoEvaluation, IncIInv, IncTypeOK
  <2>2. IncTypeOK'
    BY <1>1, <2>1 DEF IncIInv, IncTypeOK
  <2>3. Evaluated' = Evaluated
    BY <1>1, <2>1 DEF Evaluated
  <2>4. Counting'
    BY <1>1, <1>2, <2>1, <2>2, <2>3, CountingKept
  <2>5. Seen'
    BY <1>1, <2>1, SeenKept DEF Visible, IsOpen
  <2> QED
    BY <1>1, <1>3, <2>1, <2>2, <2>4, <2>5 DEF IncIInv, Working, Recovering
<1>4. CASE /\ ~(ConsecutiveSuccesses < RecoverySuccesses)
           /\ agg' = [agg EXCEPT !.at = "resolve", !.row.status = "resolved"]
  <2>1. /\ agg'.at = "resolve" /\ agg'.id = agg.id /\ agg'.row \in Row
        /\ agg'.row.requests = agg.row.requests /\ agg'.row.count = agg.row.count
        /\ agg' \in [at : {"idle", "count", "resolve", "fail", "notify", "timeline"},
                     ev : 0..MaxEvents, id : 0..Len(rows), row : Row]
    BY <1>1, <1>4 DEF Row, IncidentStatus
  <2>2. IncTypeOK'
    BY <1>1, <2>1 DEF IncIInv, IncTypeOK
  <2>3. Evaluated' = Evaluated
    BY <1>1, <2>1 DEF Evaluated
  <2>4. Counted(Evaluated', agg'.row)
    BY <2>1, <2>3 DEF IncIInv, Counting, Counted
  <2>5. Counting'
    BY <1>1, <2>2, <2>3, <2>4, CountingKept
  <2>6. Seen'
    BY <1>1, <2>1, SeenKept DEF Visible, IsOpen
  <2>7. PICK i \in 1..Len(ledger) :
          ledger[i] = "success" /\ \A k \in i..Len(ledger) : ledger[k] # "failure"
    <3> DEFINE S == {i \in 1..Len(ledger) :
                       ledger[i] = "success" /\ \A k \in i..Len(ledger) : ledger[k] # "failure"}
    <3>1. ConsecutiveSuccesses = Cardinality(S)
      BY DEF ConsecutiveSuccesses
    <3>2. S # {}
      <4>1. S = {} => Cardinality(S) = 0
        BY FS_EmptySet
      <4> HIDE DEF S
      <4> QED
        BY <1>4, <3>1, <4>1, IncidentAssumption
    <3> QED
      BY <3>2
  <2>8. \A f \in 1..Len(ledger) : ~LatestFailure(f)
    BY <1>1, <2>7 DEF LatestFailure
  <2>9. Recovering'
    BY <1>1, <2>8 DEF Recovering, LatestFailure
  <2> QED
    BY <1>1, <2>1, <2>2, <2>5, <2>6, <2>9 DEF IncIInv, Working
<1> QED
  BY <1>3, <1>4 DEF CountSuccesses, Release

(***************************************************************************)
(* Evaluations write their copies.                                         *)
(***************************************************************************)
\* What every write of a row needs: that the copy may be written, and that the
\* writer is gone or goes on with what it wrote.
LEMMA WriteKeeps ==
  ASSUME IncIInv, NEW id \in 0..Len(rows), NEW row \in Row, Put(id, row),
         UNCHANGED <<ledger, pending, faulty>>,
         \/ agg' = NoEvaluation
         \/ agg' = agg
         \/ /\ agg' \in [at : {"notify"}, ev : 0..MaxEvents, id : 1..Len(rows'), row : Row]
            /\ agg'.row = row,
         Evaluated \subseteq Evaluated', Counted(Evaluated', row),
         client' \in [Client -> [op : EditOps \cup {"none"}, id : 0..Len(rows), row : Row]],
         \A c \in Client : client'[c] = client[c] \/ client'[c] = Quiescent,
         edits' = edits, lastIn' \in 0..Len(rows'), dismissed' \subseteq 1..Len(rows')
  PROVE  IncTypeOK' /\ Working' /\ Counting'
<1> DEFINE Agg(n) == [at : {"idle", "count", "resolve", "fail", "notify", "timeline"},
                      ev : 0..MaxEvents, id : 0..n, row : Row]
<1>0. /\ IncTypeOK /\ agg \in Agg(Len(rows)) /\ Len(ledger) \in Nat
      /\ client \in [Client -> [op : EditOps \cup {"none"}, id : 0..Len(rows), row : Row]]
  BY DEF IncIInv, IncTypeOK
<1>1. /\ rows' \in Seq(Row) /\ Len(rows') \in Nat /\ Len(rows) \in Nat /\ Len(rows) <= Len(rows')
      /\ order' \in Seq(Nat) /\ ToSet(order') = 1..Len(rows') /\ IsInjective(order')
      /\ \A i \in 1..Len(rows') : rows'[i] = row \/ (i \in 1..Len(rows) /\ rows'[i] = rows[i])
  BY <1>0, PutRow
<1>2. NewRow \in Row /\ Counted(Evaluated', NewRow)
  <2>1. Evaluated' \in SUBSET (1..Len(ledger))
    BY DEF Evaluated
  <2> QED
    BY <1>0, <2>1, NewRowIsCounted
<1>3. NoEvaluation \in Agg(Len(rows')) /\ NoEvaluation.at = "idle" /\ NoEvaluation.row = NewRow
  BY <1>1, <1>2, IncidentAssumption DEF NoEvaluation
<1>4. agg' \in Agg(Len(rows'))
  BY <1>0, <1>1, <1>3
<1>5. client' \in [Client -> [op : EditOps \cup {"none"}, id : 0..Len(rows'), row : Row]]
  BY <1>1
<1>6. IncTypeOK'
  BY <1>1, <1>4, <1>5 DEF IncIInv, IncTypeOK
<1>7. Working'
  BY <1>3 DEF IncIInv, Working
<1>8. Quiescent.row = NewRow
  BY DEF Quiescent
<1>9. \A c \in Client : client'[c].row = client[c].row \/ Counted(Evaluated', client'[c].row)
  BY <1>2, <1>8
<1>10. agg'.row = agg.row \/ Counted(Evaluated', agg'.row)
  BY <1>2, <1>3
<1>11. Counting'
  BY <1>1, <1>6, <1>9, <1>10, CountingKept
<1> QED
  BY <1>6, <1>7, <1>11

\* The row is resolved; no failure was the latest result by then.
LEMMA SaveResolvedKeeps ==
  ASSUME IncIInv, SaveResolved
  PROVE  IncIInv'
<1>1. /\ agg.at = "resolve" /\ Put(agg.id, agg.row) /\ agg.id # 0
      /\ UNCHANGED <<ledger, pending, client, edits, faulty, lastIn, dismissed>>
      /\ agg' = NoEvaluation \/ agg' = [agg EXCEPT !.at = "notify"]
  BY DEF SaveResolved, Release, IncIInv, Working
<1>2. /\ IncTypeOK /\ agg.row \in Row /\ agg.id \in 0..Len(rows) /\ Len(rows) \in Nat
      /\ agg \in [at : {"idle", "count", "resolve", "fail", "notify", "timeline"},
                  ev : 0..MaxEvents, id : 0..Len(rows), row : Row]
      /\ client \in [Client -> [op : EditOps \cup {"none"}, id : 0..Len(rows), row : Row]]
      /\ lastIn \in 0..Len(rows) /\ dismissed \subseteq 1..Len(rows)
  BY DEF IncIInv, IncTypeOK
<1>3. Len(rows) <= Len(rows') /\ Len(rows') \in Nat
  BY <1>1, <1>2, PutRow
<1>4. \/ agg' = NoEvaluation
      \/ /\ agg' \in [at : {"notify"}, ev : 0..MaxEvents, id : 1..Len(rows'), row : Row]
         /\ agg'.row = agg.row
  BY <1>1, <1>2, <1>3
<1>5. Evaluated' = Evaluated /\ Counted(Evaluated', agg.row)
  <2>1. agg'.at # "fail"
    BY <1>4 DEF NoEvaluation
  <2>2. Evaluated' = Evaluated
    BY <1>1, <2>1 DEF Evaluated
  <2> QED
    BY <2>2 DEF IncIInv, Counting
<1>6. lastIn' \in 0..Len(rows') /\ dismissed' \subseteq 1..Len(rows')
  BY <1>1, <1>2, <1>3
<1>7. IncTypeOK' /\ Working' /\ Counting'
  BY <1>1, <1>2, <1>4, <1>5, <1>6, WriteKeeps
<1>8. \A f \in 1..Len(ledger) : LatestFailure(f) => f \in pending
  BY <1>1 DEF IncIInv, Recovering
<1>9. Seen'
  BY <1>1, <1>8, SeenKept
<1>10. Recovering'
  BY <1>1, <1>8 DEF Recovering, LatestFailure
<1> QED
  BY <1>7, <1>9, <1>10 DEF IncIInv

\* A failure counts once more, among the events evaluated by then.
LEMMA FailureIsCounted ==
  ASSUME IncIInv, agg.at = "fail", agg'.at # "fail", UNCHANGED <<ledger, pending>>
  PROVE  /\ agg.ev \notin agg.row.requests
         /\ Evaluated \subseteq Evaluated'
         /\ WithFailure(agg.row, agg.ev) \in Row
         /\ WithFailure(agg.row, agg.ev).status # "resolved"
         /\ Counted(Evaluated', WithFailure(agg.row, agg.ev))
<1> DEFINE row == WithFailure(agg.row, agg.ev)
<1>1. /\ Len(ledger) \in Nat /\ Len(ledger) <= MaxEvents /\ agg.row \in Row
      /\ agg.ev \in 1..Len(ledger) /\ agg.ev \notin pending
      /\ agg.row.status # "resolved" /\ Counted(Evaluated, agg.row)
  BY DEF IncIInv, IncTypeOK, Working, Counting
<1>2. /\ Evaluated \in SUBSET (1..Len(ledger)) /\ agg.ev \notin Evaluated
      /\ Evaluated' = Evaluated \cup {agg.ev}
  BY <1>1 DEF Evaluated
<1>3. /\ IsFiniteSet(Evaluated) /\ Cardinality(Evaluated) \in Nat
      /\ Cardinality(Evaluated') \in Nat /\ Cardinality(Evaluated') <= Len(ledger)
  <2>1. Evaluated' \in SUBSET (1..Len(ledger))
    BY <1>1, <1>2
  <2> QED
    BY <1>1, <1>2, <2>1, NumbersAreFinite
<1>4. Cardinality(Evaluated') = Cardinality(Evaluated) + 1
  BY <1>2, <1>3, FS_AddElement
<1>5. /\ agg.row.requests \subseteq Evaluated /\ agg.row.count <= Cardinality(Evaluated)
      /\ agg.row.count \in Nat /\ MaxEvents \in Nat
  BY <1>1, IncidentAssumption DEF Counted, Row
<1>6. agg.row.count + 1 \in 0..MaxEvents /\ agg.row.count + 1 <= Cardinality(Evaluated')
  BY <1>1, <1>3, <1>4, <1>5
<1>7. /\ row.status = agg.row.status /\ row.count = agg.row.count + 1
      /\ row.requests \in {agg.row.requests, agg.row.requests \cup {agg.ev}}
      /\ row.critical = (agg.row.critical \/ agg.row.count + 1 >= Threshold)
      /\ row = [agg.row EXCEPT !.count = row.count, !.critical = row.critical,
                               !.requests = row.requests]
  BY <1>1 DEF WithFailure, Row
<1>8. row.requests \subseteq Evaluated' /\ row.requests \subseteq 1..MaxEvents
  BY <1>1, <1>2, <1>5, <1>7
<1>9. row.critical \in BOOLEAN
  BY <1>7
<1>10. row \in Row
  <2> HIDE DEF row
  <2> QED
    BY <1>1, <1>6, <1>7, <1>8, <1>9 DEF Row
<1>11. Counted(Evaluated', row)
  BY <1>6, <1>7, <1>8 DEF Counted
<1> QED
  BY <1>1, <1>2, <1>5, <1>7, <1>10, <1>11

\* A failure is written, and is visible from then on.
LEMMA SaveFailureKeeps ==
  ASSUME IncIInv, SaveFailure
  PROVE  IncIInv'
<1> DEFINE row == WithFailure(agg.row, agg.ev)
           id  == IF agg.id = 0 THEN Len(rows) + 1 ELSE agg.id
<1>1. agg.at = "fail" /\ UNCHANGED <<ledger, pending, client, edits, faulty>>
  BY DEF SaveFailure
<1>2. agg' = NoEvaluation \/ agg' = [agg EXCEPT !.at = "notify", !.id = id, !.row = row]
  BY DEF SaveFailure, Release
<1>3. /\ IncTypeOK /\ agg.id \in 0..Len(rows) /\ Len(rows) \in Nat
      /\ agg \in [at : {"idle", "count", "resolve", "fail", "notify", "timeline"},
                  ev : 0..MaxEvents, id : 0..Len(rows), row : Row]
      /\ client \in [Client -> [op : EditOps \cup {"none"}, id : 0..Len(rows), row : Row]]
      /\ dismissed \subseteq 1..Len(rows)
  BY DEF IncIInv, IncTypeOK
<1> HIDE DEF row, id
<1>4. agg'.at # "fail"
  <2>1. NoEvaluation.at = "idle"
    BY DEF NoEvaluation
  <2>2. CASE agg' = [agg EXCEPT !.at = "notify", !.id = id, !.row = row]
    <3>1. agg'.at = "notify"
      BY <1>3, <2>2
    <3> QED
      BY <3>1
  <2> QED
    BY <1>2, <2>1, <2>2
<1>5. /\ agg.ev \notin agg.row.requests /\ Evaluated \subseteq Evaluated'
      /\ row \in Row /\ row.status # "resolved" /\ Counted(Evaluated', row)
  BY <1>1, <1>4, FailureIsCounted DEF row
<1>6. Put(agg.id, row) /\ lastIn' = id /\ dismissed' = dismissed \ {id}
  BY <1>5 DEF SaveFailure, row, id
<1>7. id \in 1..Len(rows') /\ Len(rows) <= Len(rows') /\ Len(rows') \in Nat /\ rows'[id] = row
  BY <1>3, <1>5, <1>6, PutRow DEF id
<1>8. \/ agg' = NoEvaluation
      \/ /\ agg' \in [at : {"notify"}, ev : 0..MaxEvents, id : 1..Len(rows'), row : Row]
         /\ agg'.row = row
  BY <1>2, <1>3, <1>5, <1>7
<1>9. lastIn' \in 0..Len(rows') /\ dismissed' \subseteq 1..Len(rows')
  BY <1>3, <1>6, <1>7
<1>10. IncTypeOK' /\ Working' /\ Counting'
  BY <1>1, <1>3, <1>5, <1>6, <1>8, <1>9, WriteKeeps
<1>11. Visible'
  BY <1>5, <1>6, <1>7 DEF Visible, IsOpen
<1>12. Seen'
  BY <1>11 DEF Seen
<1>13. Recovering'
  BY <1>5, <1>8 DEF Recovering, NoEvaluation
<1> QED
  BY <1>10, <1>12, <1>13 DEF IncIInv

\* The second write, with the mark of the message.
LEMMA SaveNotifiedKeeps ==
  ASSUME IncIInv, SaveNotified
  PROVE  IncIInv'
<1> DEFINE row == IF agg.row.status = "resolved" THEN [agg.row EXCEPT !.recovered = TRUE]
                                                 ELSE [agg.row EXCEPT !.opened = TRUE]
<1>1. /\ agg.at = "notify" /\ agg' = NoEvaluation /\ Put(agg.id, row) /\ agg.id # 0
      /\ UNCHANGED <<ledger, pending, client, edits, faulty, lastIn, dismissed>>
  BY DEF SaveNotified, Release, IncIInv, Working
<1>2. /\ IncTypeOK /\ agg.row \in Row /\ agg.id \in 0..Len(rows) /\ Len(rows) \in Nat
      /\ client \in [Client -> [op : EditOps \cup {"none"}, id : 0..Len(rows), row : Row]]
      /\ lastIn \in 0..Len(rows) /\ dismissed \subseteq 1..Len(rows)
  BY DEF IncIInv, IncTypeOK
<1>3. /\ row \in Row /\ row.status = agg.row.status /\ row.requests = agg.row.requests
      /\ row.count = agg.row.count
  BY <1>2 DEF Row
<1> HIDE DEF row
<1>4. Len(rows) <= Len(rows') /\ Len(rows') \in Nat
  BY <1>1, <1>2, <1>3, PutRow
<1>5. Evaluated' = Evaluated /\ Counted(Evaluated', row)
  <2>1. Evaluated' = Evaluated
    BY <1>1 DEF Evaluated, NoEvaluation
  <2> QED
    BY <1>3, <2>1 DEF IncIInv, Counting, Counted
<1>6. lastIn' \in 0..Len(rows') /\ dismissed' \subseteq 1..Len(rows')
  BY <1>1, <1>2, <1>4
<1>7. IncTypeOK' /\ Working' /\ Counting'
  BY <1>1, <1>2, <1>3, <1>5, <1>6, WriteKeeps
<1>8. Seen'
  <2>1. CASE agg.row.status = "resolved"
    <3>1. \A f \in 1..Len(ledger) : LatestFailure(f) => f \in pending
      BY <1>1, <2>1 DEF IncIInv, Recovering
    <3> QED
      BY <1>1, <3>1, SeenKept
  <2>2. CASE agg.row.status # "resolved"
    <3>1. Visible => Visible'
      BY <1>1, <1>2, <1>3, <2>2, PutVisible
    <3> QED
      BY <1>1, <3>1, SeenKept
  <2> QED
    BY <2>1, <2>2
<1>9. Recovering'
  BY <1>1 DEF Recovering, NoEvaluation
<1> QED
  BY <1>7, <1>8, <1>9 DEF IncIInv

\* The mutex is given back without a write; where the store failed, nothing is
\* promised any more.
LEMMA LeaveKeeps ==
  ASSUME IncIInv, NotNotified \/ StoreFails
  PROVE  IncIInv'
<1>1. /\ agg' = NoEvaluation
      /\ UNCHANGED <<ledger, pending, rows, order, client, edits, lastIn, dismissed>>
      /\ (faulty' = faulty /\ agg.at = "notify") \/ faulty' = TRUE
  BY DEF NotNotified, StoreFails, Release
<1>2. IncTypeOK /\ Len(rows) \in Nat /\ Len(ledger) \in Nat
  BY DEF IncIInv, IncTypeOK
<1>3. Evaluated \subseteq Evaluated' /\ Evaluated' \in SUBSET (1..Len(ledger))
  BY <1>1 DEF Evaluated, NoEvaluation
<1>4. NewRow \in Row /\ Counted(Evaluated', NewRow)
  BY <1>2, <1>3, NewRowIsCounted
<1>5. /\ agg'.at = "idle" /\ agg'.row = NewRow
      /\ agg' \in [at : {"idle", "count", "resolve", "fail", "notify", "timeline"},
                   ev : 0..MaxEvents, id : 0..Len(rows), row : Row]
  BY <1>1, <1>2, <1>4, IncidentAssumption DEF NoEvaluation
<1>6. IncTypeOK'
  BY <1>1, <1>5 DEF IncIInv, IncTypeOK
<1>7. Counting'
  BY <1>1, <1>3, <1>4, <1>5, <1>6, CountingKept
<1>8. Seen'
  BY <1>1, SeenKept DEF Visible, IsOpen
<1> QED
  BY <1>1, <1>5, <1>6, <1>7, <1>8 DEF IncIInv, Working, Recovering

(***************************************************************************)
(* The timeline, and the requests of clients.                              *)
(***************************************************************************)
LEMMA TimelineReadKeeps ==
  ASSUME IncIInv, TimelineRead
  PROVE  IncIInv'
<1> DEFINE id == FindOpenIncident
<1>1. /\ agg = NoEvaluation /\ id # 0 /\ edits' = edits + 1 /\ edits < MaxEdits
      /\ agg' = [at |-> "timeline", ev |-> 0, id |-> id, row |-> ReadRow(id)]
      /\ UNCHANGED <<ledger, pending, rows, order, client, faulty, lastIn, dismissed>>
  BY DEF TimelineRead
<1>2. /\ IncTypeOK /\ Len(rows) \in Nat /\ Len(ledger) \in Nat /\ edits \in 0..MaxEdits
      /\ agg.at = "idle"
  BY <1>1 DEF IncIInv, IncTypeOK, NoEvaluation
<1>3. id \in 0..Len(rows) /\ ReadRow(id) \in Row /\ ReadRow(id).status # "resolved"
  BY <1>2, FoundIsOpen, ReadIsOpen
<1>4. id \in 1..Len(rows) /\ ReadRow(id) = rows[id]
  BY <1>1, <1>2, <1>3 DEF ReadRow
<1> HIDE DEF id
<1>5. /\ agg'.at = "timeline" /\ agg'.id = id /\ agg'.row = ReadRow(id)
      /\ agg' \in [at : {"idle", "count", "resolve", "fail", "notify", "timeline"},
                   ev : 0..MaxEvents, id : 0..Len(rows), row : Row]
  BY <1>1, <1>3, IncidentAssumption
<1>6. edits' \in 0..MaxEdits
  BY <1>1, <1>2, IncidentAssumption
<1>7. IncTypeOK'
  BY <1>1, <1>5, <1>6 DEF IncIInv, IncTypeOK
<1>8. Evaluated' = Evaluated
  BY <1>1, <1>2, <1>5 DEF Evaluated
<1>9. Counted(Evaluated', agg'.row)
  BY <1>4, <1>5, <1>8 DEF IncIInv, Counting
<1>10. Counting'
  BY <1>1, <1>7, <1>8, <1>9, CountingKept
<1>11. Seen'
  BY <1>1, <1>2, SeenKept DEF Visible, IsOpen
<1> QED
  BY <1>1, <1>3, <1>5, <1>7, <1>10, <1>11 DEF IncIInv, Working, Recovering

\* The copy of an open incident goes back as it was read.
LEMMA TimelineWriteKeeps ==
  ASSUME IncIInv, TimelineWrite
  PROVE  IncIInv'
<1>1. /\ agg.at = "timeline" /\ agg' = NoEvaluation /\ Put(agg.id, agg.row)
      /\ agg.row.status # "resolved"
      /\ UNCHANGED <<ledger, pending, client, edits, faulty, lastIn, dismissed>>
  BY DEF TimelineWrite, Release, IncIInv, Working
<1>2. /\ IncTypeOK /\ agg.row \in Row /\ agg.id \in 0..Len(rows) /\ Len(rows) \in Nat
      /\ client \in [Client -> [op : EditOps \cup {"none"}, id : 0..Len(rows), row : Row]]
      /\ lastIn \in 0..Len(rows) /\ dismissed \subseteq 1..Len(rows)
  BY DEF IncIInv, IncTypeOK
<1>3. Len(rows) <= Len(rows') /\ Len(rows') \in Nat
  BY <1>1, <1>2, PutRow
<1>4. Evaluated' = Evaluated /\ Counted(Evaluated', agg.row)
  <2>1. Evaluated' = Evaluated
    BY <1>1 DEF Evaluated, NoEvaluation
  <2> QED
    BY <2>1 DEF IncIInv, Counting
<1>5. lastIn' \in 0..Len(rows') /\ dismissed' \subseteq 1..Len(rows')
  BY <1>1, <1>2, <1>3
<1>6. IncTypeOK' /\ Working' /\ Counting'
  BY <1>1, <1>2, <1>4, <1>5, WriteKeeps
<1>7. Visible => Visible'
  BY <1>1, <1>2, PutVisible
<1>8. Seen'
  BY <1>1, <1>7, SeenKept
<1>9. Recovering'
  BY <1>1 DEF Recovering, NoEvaluation
<1> QED
  BY <1>6, <1>8, <1>9 DEF IncIInv

\* A client reads a row.
LEMMA BeginEditKeeps ==
  ASSUME IncIInv, NEW c \in Client, NEW op \in EditOps, NEW id \in 1..Len(rows),
         BeginEdit(c, op, id)
  PROVE  IncIInv'
<1> DEFINE x == [op |-> op, id |-> id, row |-> rows[id]]
<1>1. /\ edits' = edits + 1 /\ edits < MaxEdits /\ client' = [client EXCEPT ![c] = x]
      /\ UNCHANGED <<ledger, pending, agg, rows, order, faulty, lastIn, dismissed>>
  BY DEF BeginEdit
<1>2. /\ edits \in 0..MaxEdits /\ rows \in Seq(Row) /\ Len(rows) \in Nat /\ rows[id] \in Row
      /\ client \in [Client -> [op : EditOps \cup {"none"}, id : 0..Len(rows), row : Row]]
  BY DEF IncIInv, IncTypeOK
<1>3. /\ x \in [op : EditOps \cup {"none"}, id : 0..Len(rows), row : Row]
      /\ x.id # 0 /\ x.row = rows[id]
  BY <1>2
<1> HIDE DEF x
<1>4. /\ client' \in [Client -> [op : EditOps \cup {"none"}, id : 0..Len(rows), row : Row]]
      /\ \A d \in Client : client'[d] = IF d = c THEN x ELSE client[d]
  BY <1>1, <1>2, <1>3
<1>5. edits' \in 0..MaxEdits
  BY <1>1, <1>2, IncidentAssumption
<1>6. IncTypeOK'
  BY <1>1, <1>4, <1>5 DEF IncIInv, IncTypeOK
<1>7. Evaluated' = Evaluated
  BY <1>1 DEF Evaluated
<1>8. Counting'
  BY <1>1, <1>3, <1>4, <1>7 DEF IncIInv, Counting
<1>9. Working'
  BY <1>1, <1>3, <1>4 DEF IncIInv, Working
<1>10. Seen' /\ Recovering'
  BY <1>1 DEF IncIInv, Seen, Recovering, LatestFailure, Visible, IsOpen
<1> QED
  BY <1>6, <1>8, <1>9, <1>10 DEF IncIInv

\* A client writes its copy: resolved only as one of the dismissed.
LEMMA SaveEditKeeps ==
  ASSUME IncIInv, NEW c \in Client, SaveEdit(c)
  PROVE  IncIInv'
<1> DEFINE id  == client[c].id
           row == [client[c].row EXCEPT !.status = Edited(client[c].op, @)]
<1>1. /\ client[c] # Quiescent /\ Put(id, row) /\ client' = [client EXCEPT ![c] = Quiescent]
      /\ dismissed' = IF row.status = "resolved" THEN dismissed \cup {id} ELSE dismissed
      /\ UNCHANGED <<ledger, pending, agg, edits, faulty, lastIn>>
  BY DEF SaveEdit
<1>2. /\ IncTypeOK /\ Len(rows) \in Nat /\ Len(ledger) \in Nat
      /\ client \in [Client -> [op : EditOps \cup {"none"}, id : 0..Len(rows), row : Row]]
      /\ lastIn \in 0..Len(rows) /\ dismissed \subseteq 1..Len(rows)
  BY DEF IncIInv, IncTypeOK
<1>3. id \in 1..Len(rows) /\ client[c].row \in Row
  BY <1>1, <1>2 DEF IncIInv, Working
<1>4. client[c].row.status \in IncidentStatus
  BY <1>3 DEF Row
<1>5. Edited(client[c].op, client[c].row.status) \in IncidentStatus
  BY <1>4 DEF Edited, IncidentStatus
<1>6. /\ row \in Row /\ row.requests = client[c].row.requests
      /\ row.count = client[c].row.count
  BY <1>3, <1>5 DEF Row
<1> HIDE DEF row, id
<1>7. Len(rows) <= Len(rows') /\ Len(rows') \in Nat
  BY <1>1, <1>2, <1>3, <1>6, PutRow
<1>8. /\ client' \in [Client -> [op : EditOps \cup {"none"}, id : 0..Len(rows), row : Row]]
      /\ \A d \in Client : client'[d] = client[d] \/ client'[d] = Quiescent
  <2>1. NewRow \in Row
    BY <1>2, NewRowIsCounted
  <2>2. Quiescent \in [op : EditOps \cup {"none"}, id : 0..Len(rows), row : Row]
    BY <1>2, <2>1 DEF Quiescent
  <2> QED
    BY <1>1, <1>2, <2>2
<1>9. Evaluated' = Evaluated /\ Counted(Evaluated', row)
  <2>1. Evaluated' = Evaluated
    BY <1>1 DEF Evaluated
  <2> QED
    BY <1>6, <2>1 DEF IncIInv, Counting, Counted
<1>10. lastIn' \in 0..Len(rows') /\ dismissed' \subseteq 1..Len(rows')
  BY <1>1, <1>2, <1>3, <1>7
<1>11. IncTypeOK' /\ Working' /\ Counting'
  BY <1>1, <1>2, <1>3, <1>6, <1>8, <1>9, <1>10, WriteKeeps
<1>12. Visible => Visible'
  BY <1>1, <1>2, <1>3, <1>6, PutVisible
<1>13. Seen'
  BY <1>1, <1>12, SeenKept
<1>14. Recovering'
  BY <1>1 DEF IncIInv, Recovering, LatestFailure
<1> QED
  BY <1>11, <1>13, <1>14 DEF IncIInv
-----------------------------------------------------------------------------
\* The invariant holds at first, where no event has been published.
LEMMA IncidentsStart == IncInit => IncIInv
<1> SUFFICES ASSUME IncInit PROVE IncIInv
  OBVIOUS
<1>1. /\ ledger = <<>> /\ pending = {} /\ agg = NoEvaluation /\ rows = <<>> /\ order = <<>>
      /\ client = [c \in Client |-> Quiescent] /\ edits = 0
      /\ faulty = FALSE /\ lastIn = 0 /\ dismissed = {}
  BY DEF IncInit
<1>2. Evaluated \in SUBSET (1..0) /\ Len(ledger) = 0 /\ Len(rows) = 0
  BY <1>1 DEF Evaluated
<1>3. NewRow \in Row /\ Counted(Evaluated, NewRow)
  BY <1>2, NewRowIsCounted
<1>4. /\ agg \in [at : {"idle", "count", "resolve", "fail", "notify", "timeline"},
                  ev : 0..MaxEvents, id : 0..Len(rows), row : Row]
      /\ agg.at = "idle" /\ agg.row = NewRow
  BY <1>1, <1>2, <1>3, IncidentAssumption DEF NoEvaluation
<1>5. /\ client \in [Client -> [op : EditOps \cup {"none"}, id : 0..Len(rows), row : Row]]
      /\ \A c \in Client : client[c].row = NewRow
  BY <1>1, <1>2, <1>3 DEF Quiescent
<1>6. ToSet(order) = 1..Len(rows) /\ IsInjective(order) /\ order \in Seq(Nat)
  BY <1>1, <1>2 DEF ToSet, IsInjective
<1>7. IncTypeOK
  <2>1. /\ ledger \in Seq({"success", "failure", "stopped"}) /\ Len(ledger) <= MaxEvents
        /\ pending \subseteq 1..Len(ledger) /\ rows \in Seq(Row)
    BY <1>1, <1>2, IncidentAssumption
  <2>2. edits \in 0..MaxEdits /\ lastIn \in 0..Len(rows)
    BY <1>1, <1>2, IncidentAssumption
  <2>3. faulty \in BOOLEAN /\ dismissed \subseteq 1..Len(rows)
    BY <1>1
  <2> QED
    BY <1>4, <1>5, <1>6, <2>1, <2>2, <2>3 DEF IncTypeOK
<1>8. Working /\ Counting
  BY <1>1, <1>2, <1>3, <1>4, <1>5 DEF Working, Counting
<1> QED
  BY <1>1, <1>2, <1>4, <1>7, <1>8 DEF IncIInv, Seen, Recovering

\* Every step keeps the invariant.
LEMMA IncidentsKept == IncIInv /\ [IncNext]_incVars => IncIInv'
<1> SUFFICES ASSUME IncIInv, [IncNext]_incVars PROVE IncIInv'
  OBVIOUS
<1>1. CASE \E result \in {"success", "failure", "stopped"} : Publish(result)
  BY <1>1, PublishKeeps
<1>2. CASE \E e \in pending : FindIncident(e)
  BY <1>2, FindIncidentKeeps
<1>3. CASE CountSuccesses
  BY <1>3, CountSuccessesKeeps
<1>4. CASE SaveResolved
  BY <1>4, SaveResolvedKeeps
<1>5. CASE SaveFailure
  BY <1>5, SaveFailureKeeps
<1>6. CASE SaveNotified
  BY <1>6, SaveNotifiedKeeps
<1>7. CASE NotNotified \/ StoreFails
  BY <1>7, LeaveKeeps
<1>8. CASE TimelineRead
  BY <1>8, TimelineReadKeeps
<1>9. CASE TimelineWrite
  BY <1>9, TimelineWriteKeeps
<1>10. CASE \E c \in Client, op \in EditOps, id \in 1..Len(rows) : BeginEdit(c, op, id)
  BY <1>10, BeginEditKeeps
<1>11. CASE \E c \in Client : SaveEdit(c)
  BY <1>11, SaveEditKeeps
<1>12. CASE UNCHANGED incVars
  <2>1. Evaluated' = Evaluated
    BY <1>12 DEF incVars, Evaluated
  <2>2. IncTypeOK' /\ Working'
    BY <1>12 DEF incVars, IncIInv, IncTypeOK, Working
  <2>3. Counting'
    BY <1>12, <2>1 DEF incVars, IncIInv, Counting
  <2>4. Seen' /\ Recovering'
    BY <1>12 DEF incVars, IncIInv, Seen, Recovering, LatestFailure, Visible, IsOpen
  <2> QED
    BY <2>2, <2>3, <2>4 DEF IncIInv
<1> QED
  BY <1>1, <1>2, <1>3, <1>4, <1>5, <1>6, <1>7, <1>8, <1>9, <1>10, <1>11, <1>12 DEF IncNext

\* Types of the incidents: whatever copies are written over whatever rows
\* (jobs/incidents.go, api/incidents.go), no failure is counted twice, and the
\* index of updates names each incident once.
THEOREM IncidentTypes == IncSpec => []IncTypeOK
<1>1. IncIInv => IncTypeOK
  BY DEF IncIInv
<1> QED
  BY <1>1, IncidentsStart, IncidentsKept, PTL DEF IncSpec

\* A provider that is down has an incident nobody but a client resolved, for any
\* order of evaluations and any age of the copies (incidents.go aggregateIncident).
THEOREM FailureCorrect == IncSpec => []FailureIsVisible
<1>1. IncIInv => FailureIsVisible
  <2> SUFFICES ASSUME IncIInv, pending = {}, agg = NoEvaluation, LastIsFailure, ~faulty
               PROVE  Visible
    BY DEF FailureIsVisible, Visible
  <2>1. PICK f \in 1..Len(ledger) : LatestFailure(f)
    BY DEF LastIsFailure, LatestFailure
  <2> QED
    BY <2>1 DEF IncIInv, Seen, NoEvaluation
<1> QED
  BY <1>1, IncidentsStart, IncidentsKept, PTL DEF IncSpec
-----------------------------------------------------------------------------
(***************************************************************************)
(* Alerts.  When evaluations come in order and no call fails, messages and *)
(* stored events are about the same requests (Kept), the state follows the *)
(* newest of them (Follows) and what is about to be sent is new (Reasons). *)
(* When none has been left out either, the evaluations take the requests   *)
(* one by one (NoneLeft), so that every boundary is found (Heard); that    *)
(* the count of the last alert cannot hide one (CountIsFresh) is lost only *)
(* over a restart, which Unbroken leaves out.                              *)
(***************************************************************************)
\* The state as the next evaluation finds it, when nothing fails.
Held == IF alert.loaded THEN alert ELSE Reloaded(alertLog)

Newest(a) == a \in alertLog /\ \A x \in alertLog : x.e <= a.e

\* Events of one streak that see the same window.
Together(a, b) == Streak(a) = Streak(b) /\ ended[a].from = ended[b].from

\* Windows do not move back, and hold their event.
Forward ==
  /\ \A i \in 1..Len(ended) : ended[i].from <= i
  /\ \A i, j \in 1..Len(ended) : i <= j => ended[i].from <= ended[j].from

\* Counts are those of their events; each evaluation adds one success at most.
Shape ==
  /\ Forward
  /\ \A x \in alertLog : x.count = IF x.kind = "alert" THEN ConsecutiveFailures(x.e) ELSE 0
  /\ alert.successes + Cardinality(queued) <= Len(ended)
  /\ eval.state.successes + Cardinality(queued) <= Len(ended)

\* The holder of the mutex works on the latest event.
Mutex ==
  /\ eval.at = "idle" <=> eval = NoEval
  /\ trouble.latest \notin queued
  /\ eval.at # "idle" => eval.e \in 1..Len(ended) /\ eval.state.loaded
  /\ Orderly /\ eval.at # "idle" => eval.e = trouble.latest

\* Messages and stored events are about the same events, in order.
Kept ==
  /\ \A x, y \in alertLog : x.e = y.e => x = y
  /\ \A x \in alertLog : x.e <= trouble.latest
  /\ eval.at # "idle" => \A x \in alertLog : x.e < trouble.latest
  /\ \A i, j \in 1..Len(sent) : i < j => sent[i].e < sent[j].e
  /\ \A i \in 1..Len(sent) :
       \/ \E x \in alertLog : sent[i] = [kind |-> x.kind, e |-> x.e]
       \/ /\ i = Len(sent) /\ sent[i].e = eval.e
          /\ \/ eval.at = "saveAlert" /\ sent[i].kind = "alert"
             \/ eval.at = "saveRecovery" /\ sent[i].kind = "recovery"
  /\ \A x \in alertLog : \E i \in 1..Len(sent) : sent[i] = [kind |-> x.kind, e |-> x.e]
  /\ eval.at \in {"saveAlert", "saveRecovery"} =>
       \E i \in 1..Len(sent) :
         sent[i] = [kind |-> IF eval.at = "saveAlert" THEN "alert" ELSE "recovery",
                    e |-> eval.e]

\* Between two evaluations the state is that of the newest stored event.
Follows ==
  eval.at = "idle" =>
    /\ Held.alerted => \E a \in alertLog : Newest(a) /\ a.kind = "alert"
    /\ ~Held.alerted => Held.last = 0 /\ Held.successes = 0
    /\ Held.last # 0 => \E a \in alertLog :
         Newest(a) /\ a.kind = "alert" /\ Held.last = ConsecutiveFailures(a.e)
    /\ Held.successes # 0 => \E a \in alertLog :
         Newest(a) /\ \E s \in Streak(trouble.latest) : a.e < s
    /\ \A x \in alertLog :
         x.kind = "alert" /\ Together(x.e, trouble.latest) =>
           ConsecutiveFailures(x.e) <= Held.last

\* What the holder is about to send has a reason.
Reasons ==
  /\ eval.at = "alert" => \A x \in alertLog :
       x.kind = "alert" /\ Together(x.e, eval.e) =>
         ConsecutiveFailures(x.e) # ConsecutiveFailures(eval.e)
  /\ eval.at \in {"alert", "saveAlert"} => eval.state.successes = 0
  /\ eval.at \in {"recovery", "saveRecovery"} => \E a \in alertLog :
       Newest(a) /\ a.kind = "alert" /\ \E s \in Streak(eval.e) : a.e < s

Told == AnnouncedOnce /\ Alternating

(***************************************************************************)
(* As long as no evaluation has been left out or overtaken.                *)
(***************************************************************************)
Complete == Orderly /\ ~trouble.missed /\ \A q \in queued : q > trouble.latest

\* The successes after the last failure.
Run(e) == {i \in Streak(e) : \A k \in i..e : ended[k].result # "failure"}

\* What ended before a restart was evaluated before it.
NoneLeft ==
  /\ queued = trouble.latest + 1 .. Len(ended)
  /\ \A r \in ToSet(restarts) : r <= trouble.latest

\* Every boundary so far is announced, or about to be.
Heard ==
  \A e \in 1..trouble.latest :
    ended[e].result = "failure" /\ Trigger(e, 0) /\ Unbroken(e) =>
      \/ \E i \in 1..Len(sent) : sent[i] = [kind |-> "alert", e |-> e]
      \/ eval.at = "alert" /\ eval.e = e

Recoveries ==
  /\ \A i \in 1..Len(sent) : sent[i].kind = "recovery" => RecoveredBy(sent[i].e)
  /\ eval.at = "recovery" => RecoveredBy(eval.e)
  /\ eval.at = "idle" => Held.successes <= Cardinality(Run(trouble.latest))

\* The count of an alert outlives its streak only over a restart.
CountIsFresh ==
  eval.at = "idle" /\ Held.last # 0 =>
    \E a \in alertLog :
      /\ Newest(a) /\ Held.last = ConsecutiveFailures(a.e)
      /\ \/ \A s \in Streak(trouble.latest) : s <= a.e
         \/ \E r \in ToSet(restarts) : a.e <= r /\ \A s \in Streak(trouble.latest) : s <= r

InOrder == Orderly => Kept /\ Follows /\ Reasons /\ Told

Reported == Complete => NoneLeft /\ Heard /\ Recoveries /\ CountIsFresh

AlertIInv == AlertTypeOK /\ Shape /\ Mutex /\ InOrder /\ Reported
-----------------------------------------------------------------------------
(***************************************************************************)
(* Events of a streak.                                                     *)
(***************************************************************************)
\* The elements of a sequence.
LEMMA OfSequence ==
  ASSUME NEW S, NEW s \in Seq(S)
  PROVE  Len(s) \in Nat /\ \A i \in 1..Len(s) : s[i] \in S
OBVIOUS

\* An event, as the proofs use it.
LEMMA Ended ==
  ASSUME AlertTypeOK, NEW e \in 1..Len(ended)
  PROVE  /\ ended[e].result \in Results /\ ended[e].from \in Nat /\ ended[e].from >= 1
         /\ e \in Nat /\ e >= 1 /\ e <= Len(ended) /\ Len(ended) \in Nat
         /\ 1..e \subseteq 1..Len(ended) /\ Window(e) \subseteq 1..Len(ended)
<1>1. Len(ended) \in Nat /\ ended[e] \in [result : Results, from : 1..MaxRequests]
  <2>1. ended \in Seq([result : Results, from : 1..MaxRequests])
    BY DEF AlertTypeOK
  <2> QED
    BY <2>1, OfSequence
<1>2. ended[e].result \in Results /\ ended[e].from \in 1..MaxRequests
  BY <1>1
<1>3. e \in Nat /\ e >= 1 /\ e <= Len(ended)
  BY <1>1
<1>4. ended[e].from \in Nat /\ ended[e].from >= 1
  BY <1>2, AlertAssumption
<1>5. 1..e \subseteq 1..Len(ended) /\ Window(e) \subseteq 1..Len(ended)
  BY <1>1, <1>3, <1>4 DEF Window
<1> QED
  BY <1>1, <1>2, <1>3, <1>4, <1>5

\* The failures that ConsecutiveFailures counts.
Failing(e) == {i \in Of(e, "failure") : \A k \in i..e : ended[k].result # "success"}

\* The count is a number of events; a success has none.
LEMMA FailuresCounted ==
  ASSUME AlertTypeOK, NEW e \in 1..Len(ended)
  PROVE  /\ ConsecutiveFailures(e) = Cardinality(Failing(e))
         /\ Failing(e) \subseteq 1..Len(ended) /\ IsFiniteSet(Failing(e))
         /\ ConsecutiveFailures(e) \in Nat /\ ConsecutiveFailures(e) <= Len(ended)
         /\ ended[e].result = "success" => ConsecutiveFailures(e) = 0
<1>1. Failing(e) \subseteq Window(e)
  BY DEF Failing, Of
<1>2. Window(e) \subseteq 1..Len(ended) /\ Len(ended) \in Nat
  BY Ended
<1>3. IsFiniteSet(Failing(e)) /\ Cardinality(Failing(e)) \in Nat
      /\ Cardinality(Failing(e)) <= Len(ended)
  <2>1. Failing(e) \in SUBSET (1..Len(ended))
    BY <1>1, <1>2
  <2> QED
    BY <1>2, <2>1, NumbersAreFinite
<1>4. ConsecutiveFailures(e) = Cardinality(Failing(e))
  BY DEF ConsecutiveFailures, Failing
<1>5. ASSUME ended[e].result = "success" PROVE ConsecutiveFailures(e) = 0
  <2>1. ASSUME NEW i \in Failing(e) PROVE FALSE
    <3>1. i \in 1..Len(ended) /\ i \in Window(e) /\ \A k \in i..e : ended[k].result # "success"
      BY <1>1, <1>2 DEF Failing
    <3>2. e \in i..e
      BY <3>1, Ended DEF Window
    <3> QED
      BY <1>5, <3>1, <3>2
  <2>2. Failing(e) = {}
    BY <2>1
  <2> QED
    BY <1>4, <2>2, FS_EmptySet
<1> QED
  BY <1>1, <1>2, <1>3, <1>4, <1>5

\* What lies between two events of a streak is of it.
LEMMA Between ==
  ASSUME AlertTypeOK, Forward, NEW a \in 1..Len(ended), NEW b \in 1..Len(ended),
         NEW c \in 1..Len(ended), a <= b, b <= c, Together(a, c)
  PROVE  Together(a, b) /\ Together(b, c)
<1>1. ended[a].from <= ended[b].from /\ ended[b].from <= ended[c].from
  BY DEF Forward
<1>2. ended[a].from \in Nat /\ ended[b].from \in Nat /\ ended[c].from \in Nat
  BY Ended
<1>3. ended[a].from = ended[b].from /\ ended[b].from = ended[c].from
  BY <1>1, <1>2 DEF Together
<1>4. Streak(a) \subseteq Streak(b) /\ Streak(b) \subseteq Streak(c)
  BY DEF Streak
<1> QED
  BY <1>3, <1>4 DEF Together

\* In a streak counts do not fall, and each failure adds one.
LEMMA CountGrows ==
  ASSUME AlertTypeOK, Forward, NEW a \in 1..Len(ended), NEW e \in 1..Len(ended),
         a <= e, Together(a, e)
  PROVE  /\ ConsecutiveFailures(a) <= ConsecutiveFailures(e)
         /\ a < e /\ ended[e].result = "failure" =>
              ConsecutiveFailures(a) < ConsecutiveFailures(e)
<1>1. /\ a \in Nat /\ e \in Nat /\ ended[a].from \in Nat /\ ended[e].from = ended[a].from
      /\ ended[a].from >= 1
  BY Ended DEF Together
<1>2. \A k \in 1..e : ended[k].result = "success" => k <= a
  <2>1. \A k \in 1..e : ended[k].result = "success" => k \in Streak(a)
    BY DEF Together, Streak
  <2> QED
    BY <2>1 DEF Streak
<1>3. ASSUME NEW i \in Failing(a) PROVE i \in Failing(e)
  <2>1. /\ i \in Int /\ ended[a].from <= i /\ i <= a /\ ended[i].result = "failure"
        /\ \A k \in i..a : ended[k].result # "success"
    BY <1>1 DEF Failing, Of, Window
  <2>2. i \in Window(e)
    BY <1>1, <2>1 DEF Window
  <2>3. ASSUME NEW k \in i..e PROVE ended[k].result # "success"
    BY <1>1, <1>2, <2>1
  <2> QED
    BY <2>1, <2>2, <2>3 DEF Failing, Of
<1>4. /\ ConsecutiveFailures(a) = Cardinality(Failing(a))
      /\ ConsecutiveFailures(e) = Cardinality(Failing(e)) /\ IsFiniteSet(Failing(e))
      /\ ConsecutiveFailures(a) \in Nat /\ ConsecutiveFailures(e) \in Nat
  BY FailuresCounted
<1>5. Failing(a) \in SUBSET Failing(e)
  BY <1>3
<1>6. /\ Cardinality(Failing(a)) <= Cardinality(Failing(e))
      /\ Cardinality(Failing(e)) = Cardinality(Failing(a)) => Failing(e) = Failing(a)
  BY <1>4, <1>5, FS_Subset
<1>7. ASSUME a < e, ended[e].result = "failure" PROVE Failing(a) # Failing(e)
  <2>1. e \notin Failing(a)
    BY <1>1, <1>7 DEF Failing, Of, Window
  <2>2. e \in Failing(e)
    BY <1>1, <1>7 DEF Failing, Of, Window, Forward
  <2> QED
    BY <2>1, <2>2
<1> QED
  BY <1>4, <1>6, <1>7

\* Events are added at the end.
Longer == Len(ended) <= Len(ended') /\ \A e \in 1..Len(ended) : ended'[e] = ended[e]

\* What is computed for an event does not change.
LEMMA Stable ==
  ASSUME AlertTypeOK, Longer, NEW e \in 1..Len(ended)
  PROVE  /\ ConsecutiveFailures(e)' = ConsecutiveFailures(e)
         /\ Active(e)' <=> Active(e)
         /\ Trigger(e, 0)' <=> Trigger(e, 0)
         /\ ended'[e] = ended[e]
<1>1. /\ ended'[e] = ended[e]
      /\ \A k \in 1..Len(ended) : ended'[k] = ended[k]
  BY DEF Longer
<1>2. Window(e)' = Window(e) /\ Window(e) \subseteq 1..Len(ended) /\ 1..e \subseteq 1..Len(ended)
  BY <1>1, Ended DEF Window
<1>3. ASSUME NEW r PROVE Of(e, r)' = Of(e, r)
  BY <1>1, <1>2 DEF Of
<1>4. Of(e, "success")' = Of(e, "success") /\ Of(e, "failure")' = Of(e, "failure")
  BY <1>3
<1>5. Failing(e)' = Failing(e)
  <2>1. ASSUME NEW i \in Of(e, "failure"), NEW k \in i..e PROVE ended'[k] = ended[k]
    <3>1. i \in 1..Len(ended)
      BY <1>2 DEF Of
    <3>2. k \in 1..e
      BY <3>1, Ended
    <3> QED
      BY <1>1, <1>2, <3>2
  <2> QED
    BY <1>4, <2>1 DEF Failing
<1>6. ConsecutiveFailures(e)' = ConsecutiveFailures(e)
  BY <1>5 DEF ConsecutiveFailures, Failing
<1>7. CompletedIn(e)' = CompletedIn(e)
  BY <1>4 DEF CompletedIn
<1>8. Active(e)' <=> Active(e)
  BY <1>4, <1>6, <1>7 DEF Active, Auxiliary
<1>9. Trigger(e, 0)' <=> Trigger(e, 0)
  BY <1>6, <1>8 DEF Trigger
<1> QED
  BY <1>1, <1>6, <1>8, <1>9

\* Nor do the streak up to an event and its last successes.
LEMMA StableStreak ==
  ASSUME AlertTypeOK, Longer, NEW e \in 0..Len(ended)
  PROVE  /\ Streak(e)' = Streak(e) /\ Run(e)' = Run(e)
         /\ RecoveredBy(e)' <=> RecoveredBy(e)
<1>1. Len(ended) \in Nat
  BY OfSequence DEF AlertTypeOK
<1>2. \A k \in 1..e : ended'[k] = ended[k]
  BY <1>1 DEF Longer
<1>3. Streak(e)' = Streak(e)
  BY <1>2 DEF Streak
<1>4. ASSUME NEW i \in Streak(e), NEW k \in i..e PROVE ended'[k] = ended[k]
  <2>1. k \in 1..e
    BY <1>1 DEF Streak
  <2> QED
    BY <1>2, <2>1
<1>5. Run(e)' = Run(e)
  BY <1>3, <1>4 DEF Run
<1>6. RecoveredBy(e) <=> Cardinality(Run(e)) >= AlertSuccesses
  BY DEF RecoveredBy, Run
<1>7. RecoveredBy(e)' <=> Cardinality(Run(e)') >= AlertSuccesses
  BY DEF RecoveredBy, Run
<1> QED
  BY <1>3, <1>5, <1>6, <1>7

\* The successes in a row: a success adds itself, a stopped request nothing.
LEMMA RunGrows ==
  ASSUME AlertTypeOK, NEW e \in 1..Len(ended)
  PROVE  /\ IsFiniteSet(Run(e)) /\ Cardinality(Run(e)) \in Nat
         /\ Cardinality(Run(e - 1)) \in Nat
         /\ ended[e].result = "success" => Cardinality(Run(e)) = Cardinality(Run(e - 1)) + 1
         /\ ended[e].result = "stopped" => Cardinality(Run(e)) = Cardinality(Run(e - 1))
<1>1. e \in Nat /\ e >= 1 /\ e - 1 \in Nat /\ ended[e].result \in Results
  BY Ended
<1>2. Run(e) \in SUBSET (1..e) /\ Run(e - 1) \in SUBSET (1..e - 1)
  BY DEF Run, Streak
<1>3. /\ IsFiniteSet(Run(e)) /\ Cardinality(Run(e)) \in Nat
      /\ IsFiniteSet(Run(e - 1)) /\ Cardinality(Run(e - 1)) \in Nat
  BY <1>1, <1>2, NumbersAreFinite
<1>4. ASSUME ended[e].result # "failure", NEW i \in 1..e - 1
      PROVE  i \in Run(e) <=> i \in Run(e - 1)
  <2>1. i \in Streak(e) <=> i \in Streak(e - 1)
    BY <1>1 DEF Streak
  <2>2. \A k : k \in i..e <=> k \in i..e - 1 \/ k = e
    BY <1>1
  <2> QED
    BY <1>4, <2>1, <2>2 DEF Run
<1>5. e \notin Run(e - 1) /\ \A i \in 1..e : i \in 1..e - 1 \/ i = e
  BY <1>1, <1>2
<1>6. ASSUME ended[e].result = "success"
      PROVE  Cardinality(Run(e)) = Cardinality(Run(e - 1)) + 1
  <2>1. e \in Run(e)
    BY <1>1, <1>6 DEF Run, Streak
  <2>2. Run(e) = Run(e - 1) \cup {e}
    BY <1>2, <1>4, <1>5, <1>6, <2>1
  <2> QED
    BY <1>3, <1>5, <2>2, FS_AddElement
<1>7. ASSUME ended[e].result = "stopped"
      PROVE  Run(e) = Run(e - 1)
  <2>1. e \notin Run(e)
    BY <1>7 DEF Run, Streak
  <2> QED
    BY <1>2, <1>4, <1>5, <1>7, <2>1
<1> QED
  BY <1>3, <1>6, <1>7
-----------------------------------------------------------------------------
(***************************************************************************)
(* The state that is read back.                                            *)
(***************************************************************************)
\* A stored event is about a request that has ended.
LEMMA Stored ==
  ASSUME AlertTypeOK, NEW x \in alertLog
  PROVE  /\ x.kind \in Kinds /\ x.e \in 1..Len(ended) /\ x.e \in Nat /\ x.e >= 1
         /\ x.count \in 0..MaxRequests /\ Len(ended) \in Nat
         /\ x = [kind |-> x.kind, e |-> x.e, count |-> x.count]
<1>1. x \in [kind : Kinds, e : 1..Len(ended), count : 0..MaxRequests]
  BY DEF AlertTypeOK
<1>2. x.kind \in Kinds /\ x.e \in 1..Len(ended) /\ x.count \in 0..MaxRequests
      /\ x = [kind |-> x.kind, e |-> x.e, count |-> x.count]
  BY <1>1
<1>3. Len(ended) \in Nat
  BY OfSequence DEF AlertTypeOK
<1> QED
  BY <1>2, <1>3

\* A set of stored events has a newest one.
LEMMA HasNewest ==
  ASSUME AlertTypeOK, NEW log \in SUBSET alertLog, log # {}
  PROVE  \E a \in log : \A y \in log : y.e <= a.e
<1> DEFINE T == {Len(ended) - x.e : x \in log}
<1>1. \A x \in log : x.e \in Nat /\ x.e <= Len(ended) /\ Len(ended) \in Nat
  BY Stored
<1>2. T \in SUBSET Nat /\ T # {}
  BY <1>1
<1>3. PICK t \in T : \A u \in T : t <= u
  BY <1>2, HasLeast
<1>4. PICK a \in log : t = Len(ended) - a.e
  BY <1>3
<1>5. ASSUME NEW y \in log PROVE y.e <= a.e
  <2>1. Len(ended) - a.e <= Len(ended) - y.e
    BY <1>3, <1>4
  <2> QED
    BY <1>1, <2>1
<1> QED
  BY <1>5

\* What is read back is a state, and that of the newest event.
LEMMA Reloads ==
  ASSUME AlertTypeOK, NEW log \in SUBSET alertLog
  PROVE  /\ Reloaded(log) \in States
         /\ Reloaded(log).loaded /\ Reloaded(log).successes = 0
         /\ log = {} => Reloaded(log).last = 0 /\ ~Reloaded(log).alerted
         /\ log # {} => \E a \in log :
              /\ \A y \in log : y.e <= a.e
              /\ Reloaded(log).alerted <=> a.kind = "alert"
              /\ Reloaded(log).last = IF a.kind = "alert" THEN a.count ELSE 0
<1>1. MaxRequests \in Nat
  BY AlertAssumption
<1>2. CASE log = {}
  <2>1. Reloaded(log) = [loaded |-> TRUE, alerted |-> FALSE, last |-> 0, successes |-> 0]
    BY <1>2 DEF Reloaded, Unloaded
  <2>2. Reloaded(log) \in States
    BY <1>1, <2>1 DEF States
  <2> QED
    BY <1>2, <2>1, <2>2
<1>3. CASE log # {}
  <2> DEFINE a == CHOOSE x \in log : \A y \in log : y.e <= x.e
  <2>1. a \in log /\ \A y \in log : y.e <= a.e
    BY <1>3, HasNewest
  <2>2. Reloaded(log) = [loaded |-> TRUE, alerted |-> a.kind = "alert",
                         last |-> IF a.kind = "alert" THEN a.count ELSE 0, successes |-> 0]
    BY <1>3 DEF Reloaded
  <2>3. a.kind \in Kinds /\ a.count \in 0..MaxRequests
    BY <2>1, Stored
  <2> HIDE DEF a
  <2>4. (a.kind = "alert") \in BOOLEAN
    OBVIOUS
  <2>5. /\ Reloaded(log).loaded /\ Reloaded(log).successes = 0
        /\ Reloaded(log).alerted = (a.kind = "alert")
        /\ Reloaded(log).last = IF a.kind = "alert" THEN a.count ELSE 0
    BY <2>2
  <2>6. Reloaded(log) \in States
    BY <1>1, <2>2, <2>3, <2>4 DEF States
  <2> QED
    BY <1>3, <2>1, <2>5, <2>6
<1> QED
  BY <1>2, <1>3

\* A state, as the proofs use it.
LEMMA StateFields ==
  ASSUME NEW s \in States
  PROVE  /\ s.loaded \in BOOLEAN /\ s.alerted \in BOOLEAN
         /\ s.last \in Nat /\ s.last <= MaxRequests
         /\ s.successes \in Nat /\ s.successes <= MaxRequests
         /\ s = [loaded |-> s.loaded, alerted |-> s.alerted, last |-> s.last,
                 successes |-> s.successes]
         /\ Unloaded \in States
<1>1. MaxRequests \in Nat
  BY AlertAssumption
<1>2. /\ s.loaded \in BOOLEAN /\ s.alerted \in BOOLEAN
      /\ s.last \in 0..MaxRequests /\ s.successes \in 0..MaxRequests
      /\ s = [loaded |-> s.loaded, alerted |-> s.alerted, last |-> s.last,
              successes |-> s.successes]
  BY DEF States
<1>3. Unloaded \in States
  BY <1>1 DEF Unloaded, States
<1> QED
  BY <1>1, <1>2, <1>3

\* The state held, and the one an evaluation that misses no event finds.
LEMMA HeldState ==
  ASSUME AlertTypeOK
  PROVE  /\ Held \in States /\ Held.loaded
         /\ Held.successes = 0 \/ Held = alert
         /\ \A kinds : LoadState(kinds) \in States /\ LoadState(kinds).loaded
         /\ \A kinds : LoadState(kinds).successes = 0 \/ LoadState(kinds) = alert
         /\ \A kinds : alert.loaded \/ Readable(kinds) = alertLog => LoadState(kinds) = Held
<1>1. alert \in States
  BY DEF AlertTypeOK
<1>2. \A kinds : Readable(kinds) \in SUBSET alertLog
  BY DEF Readable
<1>3. /\ Held \in States /\ Held.loaded
      /\ Held.successes = 0 \/ Held = alert
  BY <1>1, Reloads DEF Held
<1>4. \A kinds : /\ LoadState(kinds) \in States /\ LoadState(kinds).loaded
                 /\ LoadState(kinds).successes = 0 \/ LoadState(kinds) = alert
  <2> TAKE kinds
  <2>1. Readable(kinds) \in SUBSET alertLog
    BY <1>2
  <2>2. /\ Reloaded(Readable(kinds)) \in States /\ Reloaded(Readable(kinds)).loaded
        /\ Reloaded(Readable(kinds)).successes = 0
    BY <2>1, Reloads
  <2> QED
    BY <1>1, <2>2 DEF LoadState
<1>5. \A kinds : alert.loaded \/ Readable(kinds) = alertLog => LoadState(kinds) = Held
  BY DEF LoadState, Held
<1> QED
  BY <1>3, <1>4, <1>5

\* What an evaluation makes of the state.
LEMMA CurrentState ==
  ASSUME AlertTypeOK, NEW e \in 1..Len(ended), NEW s \in States
  PROVE  /\ Current(e, s) \in States
         /\ Current(e, s).loaded = s.loaded /\ Current(e, s).alerted = s.alerted
         /\ Current(e, s).successes = s.successes
         /\ Current(e, s).last = IF ConsecutiveFailures(e) < s.last THEN 0 ELSE s.last
<1>1. /\ s.loaded \in BOOLEAN /\ s.alerted \in BOOLEAN
      /\ s.last \in 0..MaxRequests /\ s.successes \in 0..MaxRequests
      /\ s = [loaded |-> s.loaded, alerted |-> s.alerted, last |-> s.last,
              successes |-> s.successes]
      /\ MaxRequests \in Nat
  BY StateFields, AlertAssumption DEF States
<1>2. CASE ConsecutiveFailures(e) < s.last
  <2>1. Current(e, s) = [loaded |-> s.loaded, alerted |-> s.alerted, last |-> 0,
                         successes |-> s.successes]
    BY <1>1, <1>2 DEF Current
  <2>2. Current(e, s) \in States
    BY <1>1, <2>1 DEF States
  <2> QED
    BY <1>2, <2>1, <2>2
<1>3. CASE ~(ConsecutiveFailures(e) < s.last)
  BY <1>3 DEF Current
<1> QED
  BY <1>2, <1>3

\* The successes an uneventful evaluation counts.
Successes(e, s) ==
  IF Active(e) \/ (s.alerted /\ ended[e].result = "failure") THEN 0
  ELSE IF s.alerted /\ ended[e].result = "success" THEN s.successes + 1 ELSE s.successes

\* An uneventful evaluation changes nothing else.
LEMMA UneventfulState ==
  ASSUME AlertTypeOK, NEW e \in 1..Len(ended), NEW s \in States
  PROVE  /\ Uneventful(e, s) = [loaded |-> s.loaded, alerted |-> s.alerted, last |-> s.last,
                                successes |-> Successes(e, s)]
         /\ Successes(e, s) \in Nat /\ Successes(e, s) <= s.successes + 1
<1>1. /\ s.loaded \in BOOLEAN /\ s.alerted \in BOOLEAN /\ s.last \in Nat /\ s.successes \in Nat
      /\ s = [loaded |-> s.loaded, alerted |-> s.alerted, last |-> s.last,
              successes |-> s.successes]
  BY StateFields
<1>2. ended[e].result \in {"success", "failure", "stopped"}
  BY Ended DEF Results
<1>3. Successes(e, s) \in Nat /\ Successes(e, s) <= s.successes + 1
  BY <1>1 DEF Successes
<1>4. [s EXCEPT !.successes = 0] = [loaded |-> s.loaded, alerted |-> s.alerted,
                                    last |-> s.last, successes |-> 0]
  BY <1>1
<1>5. [s EXCEPT !.successes = @ + 1] = [loaded |-> s.loaded, alerted |-> s.alerted,
                                        last |-> s.last, successes |-> s.successes + 1]
  BY <1>1
<1>6. CASE Active(e)
  <2>1. Successes(e, s) = 0
    BY <1>6 DEF Successes
  <2>2. Uneventful(e, s) = [s EXCEPT !.successes = 0]
    BY <1>6 DEF Uneventful
  <2> QED
    BY <1>4, <1>3, <2>1, <2>2
<1>7. CASE ~Active(e) /\ ~s.alerted
  BY <1>1, <1>7 DEF Uneventful, Successes
<1>8. CASE ~Active(e) /\ s.alerted /\ ended[e].result = "success"
  <2>1. Successes(e, s) = s.successes + 1
    BY <1>8 DEF Successes
  <2>2. Uneventful(e, s) = [s EXCEPT !.successes = @ + 1]
    BY <1>8 DEF Uneventful
  <2> QED
    BY <1>5, <1>3, <2>1, <2>2
<1>9. CASE ~Active(e) /\ s.alerted /\ ended[e].result = "failure"
  <2>1. Successes(e, s) = 0
    BY <1>9 DEF Successes
  <2>2. Uneventful(e, s) = [s EXCEPT !.successes = 0]
    BY <1>9 DEF Uneventful
  <2> QED
    BY <1>4, <1>3, <2>1, <2>2
<1>10. CASE ~Active(e) /\ s.alerted /\ ended[e].result = "stopped"
  BY <1>1, <1>10 DEF Uneventful, Successes
<1> QED
  BY <1>2, <1>3, <1>6, <1>7, <1>8, <1>9, <1>10
-----------------------------------------------------------------------------
(***************************************************************************)
(* Types, counts and the mutex.                                            *)
(***************************************************************************)
\* The variables that are records.
LEMMA Fields ==
  ASSUME AlertTypeOK
  PROVE  /\ Len(ended) \in Nat /\ MaxRequests \in Nat /\ Len(ended) <= MaxRequests
         /\ eval.at \in {"idle", "alert", "recovery", "saveAlert", "saveRecovery"}
         /\ eval.e \in 0..Len(ended) /\ eval.state \in States
         /\ eval = [at |-> eval.at, e |-> eval.e, state |-> eval.state]
         /\ trouble.latest \in 0..Len(ended) /\ trouble.disorder \in BOOLEAN
         /\ trouble.missed \in BOOLEAN /\ trouble.fault \in BOOLEAN
         /\ trouble = [latest |-> trouble.latest, disorder |-> trouble.disorder,
                       missed |-> trouble.missed, fault |-> trouble.fault]
         /\ IsFiniteSet(queued) /\ Cardinality(queued) \in Nat
         /\ Cardinality(queued) <= Len(ended)
<1>1. Len(ended) \in Nat
  BY OfSequence DEF AlertTypeOK
<1>2. IsFiniteSet(queued) /\ Cardinality(queued) \in Nat /\ Cardinality(queued) <= Len(ended)
  <2>1. queued \in SUBSET (1..Len(ended))
    BY DEF AlertTypeOK
  <2> QED
    BY <1>1, <2>1, NumbersAreFinite
<1>3. /\ eval.at \in {"idle", "alert", "recovery", "saveAlert", "saveRecovery"}
      /\ eval.e \in 0..Len(ended) /\ eval.state \in States
      /\ eval = [at |-> eval.at, e |-> eval.e, state |-> eval.state]
  BY DEF AlertTypeOK
<1>4. /\ trouble.latest \in 0..Len(ended) /\ trouble.disorder \in BOOLEAN
      /\ trouble.missed \in BOOLEAN /\ trouble.fault \in BOOLEAN
      /\ trouble = [latest |-> trouble.latest, disorder |-> trouble.disorder,
                    missed |-> trouble.missed, fault |-> trouble.fault]
  BY DEF AlertTypeOK
<1> QED
  BY <1>1, <1>2, <1>3, <1>4, AlertAssumption DEF AlertTypeOK

\* One more event, at the end.
LEMMA OneMore ==
  ASSUME AlertTypeOK, NEW result \in Results, NEW from \in 1..MaxRequests, NEW slot \in BOOLEAN,
         RequestEnds(result, from, slot)
  PROVE  /\ Longer /\ Len(ended') = Len(ended) + 1 /\ Len(ended') <= MaxRequests
         /\ ended' \in Seq([result : Results, from : 1..MaxRequests])
         /\ ended'[Len(ended) + 1] = [result |-> result, from |-> from]
<1> DEFINE R == [result : Results, from : 1..MaxRequests]
           r == [result |-> result, from |-> from]
<1>1. ended \in Seq(R) /\ r \in R /\ ended' = Append(ended, r) /\ Len(ended) < MaxRequests
  BY DEF AlertTypeOK, RequestEnds
<1>2. Len(ended) \in Nat /\ MaxRequests \in Nat
  BY Fields
<1> HIDE DEF R, r
<1>3. /\ Append(ended, r) \in Seq(R) /\ Len(Append(ended, r)) = Len(ended) + 1
      /\ \A i \in 1..Len(ended) : Append(ended, r)[i] = ended[i]
      /\ Append(ended, r)[Len(ended) + 1] = r
  BY <1>1
<1>4. Longer /\ Len(ended') = Len(ended) + 1 /\ Len(ended') <= MaxRequests
  BY <1>1, <1>2, <1>3 DEF Longer
<1>5. ended' \in Seq(R) /\ ended'[Len(ended) + 1] = r
  BY <1>1, <1>3
<1> QED
  BY <1>4, <1>5 DEF R, r

\* A sequence of numbers up to a bound is one up to a higher bound.
LEMMA WiderSequence ==
  ASSUME NEW S, NEW T, S \subseteq T, NEW s \in Seq(S)
  PROVE  s \in Seq(T)
OBVIOUS

\* A request ends: windows stay in order, and there is room for one evaluation.
LEMMA RequestEndsShape ==
  ASSUME AlertTypeOK, Shape, Mutex, NEW result \in Results, NEW from \in 1..MaxRequests,
         NEW slot \in BOOLEAN, RequestEnds(result, from, slot)
  PROVE  AlertTypeOK' /\ Shape' /\ Mutex'
<1> DEFINE n == Len(ended)
<1>1. /\ Longer /\ Len(ended') = n + 1 /\ Len(ended') <= MaxRequests
      /\ ended' \in Seq([result : Results, from : 1..MaxRequests])
      /\ ended'[n + 1] = [result |-> result, from |-> from]
      /\ \A i \in 1..n : ended'[i] = ended[i]
  BY OneMore DEF Longer
<1>2. n \in Nat /\ 1..n \subseteq 1..n + 1 /\ 0..n \subseteq 0..n + 1 /\ n + 1 \in 1..n + 1
  BY Fields
<1>3. /\ queued' = (IF slot THEN queued \cup {n + 1} ELSE queued)
      /\ trouble' = [trouble EXCEPT !.missed = @ \/ ~slot]
      /\ UNCHANGED <<eval, alert, alertLog, sent, restarts>>
      /\ from \in LastFrom .. LastFrom + 1 /\ from <= n + 1
  BY DEF RequestEnds
<1>4. trouble' = [latest |-> trouble.latest, disorder |-> trouble.disorder,
                  missed |-> trouble.missed \/ ~slot, fault |-> trouble.fault]
  BY <1>3, Fields
<1>5. queued \subseteq 1..n /\ IsFiniteSet(queued) /\ n + 1 \notin queued
  BY <1>2, Fields DEF AlertTypeOK
<1>6. queued' \subseteq 1..n + 1 /\ Cardinality(queued') <= Cardinality(queued) + 1
  <2>1. queued' \subseteq 1..n + 1
    BY <1>2, <1>3, <1>5
  <2>2. Cardinality(queued \cup {n + 1}) = Cardinality(queued) + 1
    BY <1>5, FS_AddElement
  <2>3. Cardinality(queued) \in Nat
    BY Fields
  <2> QED
    BY <1>3, <2>1, <2>2, <2>3
<1>7. AlertTypeOK'
  <2>1. /\ alertLog' \subseteq [kind : Kinds, e : 1..n + 1, count : 0..MaxRequests]
    <3>1. alertLog \subseteq [kind : Kinds, e : 1..n, count : 0..MaxRequests]
      BY DEF AlertTypeOK
    <3>2. \A x \in alertLog : x \in [kind : Kinds, e : 1..n + 1, count : 0..MaxRequests]
      BY <1>2, <3>1
    <3> QED
      BY <1>3, <3>2
  <2>2. sent' \in Seq([kind : Kinds, e : 1..n + 1])
    <3>1. [kind : Kinds, e : 1..n] \subseteq [kind : Kinds, e : 1..n + 1]
      BY <1>2
    <3>2. sent \in Seq([kind : Kinds, e : 1..n])
      BY DEF AlertTypeOK
    <3> QED
      BY <1>3, <3>1, <3>2, WiderSequence
  <2>3. restarts' \in Seq(0..n + 1) /\ Len(restarts') <= MaxUpsets
    <3>1. restarts \in Seq(0..n) /\ Len(restarts) <= MaxUpsets
      BY DEF AlertTypeOK
    <3> QED
      BY <1>2, <1>3, <3>1, WiderSequence
  <2>4. trouble' \in [latest : 0..n + 1, disorder : BOOLEAN, missed : BOOLEAN, fault : BOOLEAN]
    <3>1. (trouble.missed \/ ~slot) \in BOOLEAN /\ trouble.latest \in 0..n + 1
      BY <1>2, Fields
    <3> QED
      BY <1>4, <3>1, Fields
  <2>5. /\ eval' \in [at : {"idle", "alert", "recovery", "saveAlert", "saveRecovery"},
                      e : 0..n + 1, state : States]
        /\ alert' \in States
    BY <1>2, <1>3, Fields DEF AlertTypeOK
  <2> QED
    BY <1>1, <1>6, <2>1, <2>2, <2>3, <2>4, <2>5 DEF AlertTypeOK
<1>8. Forward'
  <2>1. /\ \A i \in 1..n : ended[i].from <= i /\ ended[i].from \in Nat
        /\ \A i, j \in 1..n : i <= j => ended[i].from <= ended[j].from
    BY Ended DEF Shape, Forward
  <2>2. ended'[n + 1].from = from /\ from <= n + 1 /\ from \in Nat
    BY <1>1, <1>3
  <2>3. \A i \in 1..n : ended[i].from <= from
    <3> TAKE i \in 1..n
    <3>1. n \in 1..n /\ ended[i].from <= ended[n].from
      BY <1>2, <2>1
    <3>2. ended # <<>>
      BY <1>2, <3>1
    <3>3. LastFrom = ended[n].from
      BY <3>2 DEF LastFrom, Last
    <3> QED
      BY <1>2, <1>3, <2>1, <2>2, <3>1, <3>3
  <2>4. \A i \in 1..n + 1 : i \in 1..n \/ i = n + 1
    BY <1>2
  <2>5. \A i \in 1..n + 1 : ended'[i].from <= i
    BY <1>1, <2>1, <2>2, <2>4
  <2>6. \A i, j \in 1..n + 1 : i <= j => ended'[i].from <= ended'[j].from
    <3> TAKE i, j \in 1..n + 1
    <3> HAVE i <= j
    <3>1. CASE j = n + 1
      BY <1>1, <2>2, <2>3, <2>4, <3>1
    <3>2. CASE j \in 1..n
      <4>1. i \in 1..n
        BY <1>2, <3>2
      <4> QED
        BY <1>1, <2>1, <3>2, <4>1
    <3> QED
      BY <2>4, <3>1, <3>2
  <2> QED
    BY <1>1, <2>5, <2>6 DEF Forward
<1>9. \A x \in alertLog' :
        x.count = IF x.kind = "alert" THEN ConsecutiveFailures(x.e)' ELSE 0
  <2> TAKE x \in alertLog'
  <2>1. x \in alertLog /\ x.e \in 1..n
    BY <1>3, Stored
  <2>2. ConsecutiveFailures(x.e)' = ConsecutiveFailures(x.e)
    BY <1>1, <2>1, Stable
  <2> QED
    BY <2>1, <2>2 DEF Shape
<1>10. /\ alert'.successes + Cardinality(queued') <= n + 1
       /\ eval'.state.successes + Cardinality(queued') <= n + 1
  <2>1. /\ alert.successes + Cardinality(queued) <= n
        /\ eval.state.successes + Cardinality(queued) <= n
    BY DEF Shape
  <2>2. alert.successes \in Nat /\ eval.state.successes \in Nat /\ Cardinality(queued') \in Nat
    <3>1. queued' \in SUBSET (1..n + 1) /\ n + 1 \in Nat
      BY <1>2, <1>6
    <3> QED
      BY <3>1, NumbersAreFinite, StateFields, Fields DEF AlertTypeOK
  <2>3. Cardinality(queued) \in Nat
    BY Fields
  <2>4. alert' = alert /\ eval' = eval
    BY <1>3
  <2> QED
    BY <1>2, <1>6, <2>1, <2>2, <2>3, <2>4
<1>11. Shape'
  BY <1>1, <1>8, <1>9, <1>10 DEF Shape
<1>12. Mutex'
  <2>1. trouble'.latest = trouble.latest /\ (Orderly' <=> Orderly)
    BY <1>4 DEF Orderly
  <2>2. trouble.latest \notin queued'
    BY <1>2, <1>3, Fields DEF Mutex
  <2> QED
    BY <1>1, <1>2, <1>3, <2>1, <2>2 DEF Mutex
<1> QED
  BY <1>7, <1>11, <1>12

\* The state an evaluation finds, and the one it leaves when it sends nothing.
Found(e, kinds) == Current(e, LoadState(kinds))
Left(e, kinds) == Uneventful(e, Found(e, kinds))

Recovers(e, kinds) ==
  /\ ~Trigger(e, Found(e, kinds).last) /\ ~Active(e) /\ Found(e, kinds).alerted
  /\ Left(e, kinds).successes >= AlertSuccesses

\* An evaluation ends at once or goes on to send a message.
LEMMA EvaluateCases ==
  ASSUME AlertTypeOK, Shape, Mutex, NEW e \in queued, NEW kinds, Evaluate(e, kinds)
  PROVE  /\ e \in 1..Len(ended) /\ eval = NoEval /\ queued' = queued \ {e}
         /\ Found(e, kinds) \in States /\ Found(e, kinds).loaded
         /\ Found(e, kinds).alerted = LoadState(kinds).alerted
         /\ Found(e, kinds).last =
              IF ConsecutiveFailures(e) < LoadState(kinds).last THEN 0 ELSE LoadState(kinds).last
         /\ Found(e, kinds).successes = LoadState(kinds).successes
         /\ Left(e, kinds) \in States
         /\ Left(e, kinds).loaded
         /\ Left(e, kinds).alerted = Found(e, kinds).alerted
         /\ Left(e, kinds).last = Found(e, kinds).last
         /\ Left(e, kinds).successes = Successes(e, Found(e, kinds))
         /\ Left(e, kinds).successes + Cardinality(queued') <= Len(ended)
         /\ LoadState(kinds).successes + Cardinality(queued') <= Len(ended)
         /\ \/ /\ Trigger(e, Found(e, kinds).last)
               /\ eval' = [at |-> "alert", e |-> e, state |-> Left(e, kinds)]
               /\ alert' = LoadState(kinds)
            \/ /\ Recovers(e, kinds)
               /\ eval' = [at |-> "recovery", e |-> e, state |-> Left(e, kinds)]
               /\ alert' = LoadState(kinds)
            \/ /\ ~Trigger(e, Found(e, kinds).last) /\ ~Recovers(e, kinds)
               /\ eval' = eval /\ alert' = Left(e, kinds)
<1>1. e \in 1..Len(ended) /\ eval = NoEval /\ queued' = queued \ {e}
  BY DEF AlertTypeOK, Evaluate
<1>2. LoadState(kinds) \in States /\ LoadState(kinds).loaded
  BY HeldState
<1>3. /\ Found(e, kinds) \in States /\ Found(e, kinds).loaded
      /\ Found(e, kinds).alerted = LoadState(kinds).alerted
      /\ Found(e, kinds).last =
           IF ConsecutiveFailures(e) < LoadState(kinds).last THEN 0 ELSE LoadState(kinds).last
      /\ Found(e, kinds).successes = LoadState(kinds).successes
  BY <1>1, <1>2, CurrentState DEF Found
<1>4. /\ Left(e, kinds) = [loaded |-> Found(e, kinds).loaded,
             alerted |-> Found(e, kinds).alerted, last |-> Found(e, kinds).last,
             successes |-> Successes(e, Found(e, kinds))]
      /\ Successes(e, Found(e, kinds)) \in Nat
      /\ Successes(e, Found(e, kinds)) <= Found(e, kinds).successes + 1
  BY <1>1, <1>3, UneventfulState DEF Left
<1>5. /\ Cardinality(queued') = Cardinality(queued) - 1
      /\ Cardinality(queued) \in Nat /\ Len(ended) \in Nat /\ MaxRequests \in Nat
      /\ Cardinality(queued) <= Len(ended) /\ Len(ended) <= MaxRequests
  <2>1. IsFiniteSet(queued)
    BY Fields
  <2>2. Cardinality(queued \ {e}) = Cardinality(queued) - 1
    BY <2>1, FS_RemoveElement
  <2> QED
    BY <1>1, <2>2, Fields
<1>6. LoadState(kinds).successes \in Nat
      /\ LoadState(kinds).successes + Cardinality(queued) <= Len(ended)
  <2>1. LoadState(kinds).successes = 0 \/ LoadState(kinds) = alert
    BY HeldState
  <2>2. alert.successes \in Nat /\ alert.successes + Cardinality(queued) <= Len(ended)
    BY StateFields DEF AlertTypeOK, Shape
  <2> QED
    BY <1>5, <2>1, <2>2
<1>7. /\ Left(e, kinds).successes + Cardinality(queued') <= Len(ended)
      /\ LoadState(kinds).successes + Cardinality(queued') <= Len(ended)
      /\ Successes(e, Found(e, kinds)) \in 0..MaxRequests
  <2>1. Left(e, kinds).successes = Successes(e, Found(e, kinds))
    BY <1>4
  <2>2. Found(e, kinds).successes \in Nat
    BY <1>3, <1>6
  <2>3. Cardinality(queued') \in Nat
    <3>1. queued' \in SUBSET (1..Len(ended))
      BY <1>1 DEF AlertTypeOK
    <3> QED
      BY <1>5, <3>1, NumbersAreFinite
  <2> QED
    BY <1>3, <1>4, <1>5, <1>6, <2>1, <2>2, <2>3
<1>8. Left(e, kinds) \in States
  BY <1>3, <1>4, <1>7 DEF States
<1>9. \/ /\ Trigger(e, Found(e, kinds).last)
         /\ eval' = [at |-> "alert", e |-> e, state |-> Left(e, kinds)]
         /\ alert' = LoadState(kinds)
      \/ /\ Recovers(e, kinds)
         /\ eval' = [at |-> "recovery", e |-> e, state |-> Left(e, kinds)]
         /\ alert' = LoadState(kinds)
      \/ /\ ~Trigger(e, Found(e, kinds).last) /\ ~Recovers(e, kinds)
         /\ eval' = eval /\ alert' = Left(e, kinds)
  <2> DEFINE to == IF Trigger(e, Found(e, kinds).last) THEN "alert"
                   ELSE IF ~Active(e) /\ Found(e, kinds).alerted
                           /\ Left(e, kinds).successes >= AlertSuccesses
                   THEN "recovery" ELSE "idle"
  <2>1. IF to = "idle"
        THEN alert' = Left(e, kinds) /\ UNCHANGED eval
        ELSE eval' = [at |-> to, e |-> e, state |-> Left(e, kinds)] /\ alert' = LoadState(kinds)
    BY DEF Evaluate, Found, Left
  <2>2. CASE Trigger(e, Found(e, kinds).last)
    <3>1. to = "alert"
      BY <2>2
    <3> QED
      BY <2>1, <2>2, <3>1
  <2>3. CASE Recovers(e, kinds)
    <3>1. to = "recovery"
      BY <2>3 DEF Recovers
    <3> QED
      BY <2>1, <2>3, <3>1
  <2>4. CASE ~Trigger(e, Found(e, kinds).last) /\ ~Recovers(e, kinds)
    <3>1. to = "idle"
      BY <2>4 DEF Recovers
    <3> QED
      BY <2>1, <2>4, <3>1
  <2> QED
    BY <2>2, <2>3, <2>4
<1> QED
  BY <1>1, <1>3, <1>4, <1>7, <1>8, <1>9

\* Most steps add no request; what is said of those that have ended stays true.
LEMMA SameShape ==
  ASSUME AlertTypeOK, Shape, ended' = ended,
         alertLog' \subseteq [kind : Kinds, e : 1..Len(ended), count : 0..MaxRequests],
         \A x \in alertLog' : x \in alertLog
           \/ x.count = IF x.kind = "alert" THEN ConsecutiveFailures(x.e) ELSE 0,
         alert'.successes + Cardinality(queued') <= Len(ended),
         eval'.state.successes + Cardinality(queued') <= Len(ended)
  PROVE  Shape'
<1>1. Longer
  <2>1. Len(ended) \in Nat
    BY Fields
  <2> QED
    BY <2>1 DEF Longer
<1>2. Forward'
  BY DEF Shape, Forward
<1>3. \A x \in alertLog' :
        x.count = IF x.kind = "alert" THEN ConsecutiveFailures(x.e)' ELSE 0
  <2> TAKE x \in alertLog'
  <2>1. x.e \in 1..Len(ended)
    OBVIOUS
  <2>2. ConsecutiveFailures(x.e)' = ConsecutiveFailures(x.e)
    BY <1>1, <2>1, Stable
  <2> QED
    BY <2>2 DEF Shape
<1> QED
  BY <1>2, <1>3 DEF Shape

\* An evaluation begins: the event is the latest if it is in order.
LEMMA EvaluateShape ==
  ASSUME AlertTypeOK, Shape, Mutex, NEW e \in queued, NEW kinds, Evaluate(e, kinds)
  PROVE  /\ AlertTypeOK' /\ Shape' /\ Mutex'
         /\ Orderly' => /\ Orderly /\ e > trouble.latest /\ trouble'.latest = e
                        /\ LoadState(kinds) = Held
         /\ trouble'.missed = trouble.missed
<1> DEFINE late == trouble.disorder \/ e < trouble.latest
           lost == trouble.fault \/ (~alert.loaded /\ Readable(kinds) # alertLog)
           top  == IF e > trouble.latest THEN e ELSE trouble.latest
<1>1. /\ e \in 1..Len(ended) /\ eval = NoEval /\ queued' = queued \ {e}
      /\ Left(e, kinds) \in States /\ Left(e, kinds).loaded
      /\ Left(e, kinds).successes + Cardinality(queued') <= Len(ended)
      /\ LoadState(kinds).successes + Cardinality(queued') <= Len(ended)
      /\ \/ /\ eval' = [at |-> "alert", e |-> e, state |-> Left(e, kinds)]
            /\ alert' = LoadState(kinds)
         \/ /\ eval' = [at |-> "recovery", e |-> e, state |-> Left(e, kinds)]
            /\ alert' = LoadState(kinds)
         \/ eval' = eval /\ alert' = Left(e, kinds)
  BY EvaluateCases
<1>2. UNCHANGED <<ended, alertLog, sent, restarts>>
  BY DEF Evaluate
<1>3. trouble' = [latest |-> top, disorder |-> late, missed |-> trouble.missed, fault |-> lost]
  <2>1. trouble' = [trouble EXCEPT !.disorder = @ \/ e < trouble.latest,
                      !.latest = IF e > @ THEN e ELSE @,
                      !.fault = @ \/ (~alert.loaded /\ Readable(kinds) # alertLog)]
    BY DEF Evaluate
  <2>2. trouble = [latest |-> trouble.latest, disorder |-> trouble.disorder,
                   missed |-> trouble.missed, fault |-> trouble.fault]
    BY Fields
  <2> QED
    BY <2>1, <2>2
<1>4. /\ trouble.latest \in 0..Len(ended) /\ Len(ended) \in Nat /\ trouble.missed \in BOOLEAN
      /\ trouble.latest \notin queued /\ e # trouble.latest
  BY Fields DEF Mutex
<1>5. top \in 0..Len(ended)
  BY <1>1, <1>4
<1>6. late \in BOOLEAN /\ lost \in BOOLEAN
  BY Fields
<1>7. LoadState(kinds) \in States /\ Unloaded \in States
  BY HeldState, StateFields
<1> HIDE DEF late, lost
<1>8. AlertTypeOK'
  <2>1. trouble' \in [latest : 0..Len(ended), disorder : BOOLEAN, missed : BOOLEAN,
                      fault : BOOLEAN]
    BY <1>3, <1>4, <1>5, <1>6
  <2>2. eval' \in [at : {"idle", "alert", "recovery", "saveAlert", "saveRecovery"},
                   e : 0..Len(ended), state : States]
    <3>1. e \in 0..Len(ended)
      BY <1>1
    <3> QED
      BY <1>1, <3>1 DEF AlertTypeOK
  <2>3. alert' \in States /\ queued' \subseteq 1..Len(ended)
    BY <1>1, <1>7 DEF AlertTypeOK
  <2> QED
    BY <1>2, <2>1, <2>2, <2>3 DEF AlertTypeOK
<1>9. Shape'
  <2>1. /\ alert'.successes + Cardinality(queued') <= Len(ended)
    BY <1>1
  <2>2. eval'.state.successes + Cardinality(queued') <= Len(ended)
    <3>1. CASE eval' = eval
      <4>1. eval'.state.successes = 0
        BY <1>1, <3>1 DEF NoEval, Unloaded
      <4>2. queued' \in SUBSET (1..Len(ended))
        BY <1>1 DEF AlertTypeOK
      <4>3. Cardinality(queued') \in Nat /\ Cardinality(queued') <= Len(ended)
        BY <1>4, <4>2, NumbersAreFinite
      <4> QED
        BY <1>4, <4>1, <4>3
    <3>2. CASE eval' # eval
      <4>1. eval'.state = Left(e, kinds)
        BY <1>1, <3>2
      <4> QED
        BY <1>1, <4>1
    <3> QED
      BY <3>1, <3>2
  <2> QED
    BY <1>2, <2>1, <2>2, SameShape DEF AlertTypeOK
<1>10. Orderly' => /\ Orderly /\ e > trouble.latest /\ trouble'.latest = e
                   /\ LoadState(kinds) = Held
  <2> HAVE Orderly'
  <2>1. ~late /\ ~lost
    BY <1>3 DEF Orderly
  <2>2. Orderly /\ ~(e < trouble.latest) /\ (alert.loaded \/ Readable(kinds) = alertLog)
    BY <2>1 DEF late, lost, Orderly
  <2>3. e > trouble.latest
    BY <1>1, <1>4, <2>2
  <2> QED
    BY <1>3, <2>2, <2>3, HeldState
<1>11. Mutex'
  <2>1. trouble'.latest \notin queued'
    BY <1>1, <1>3, <1>4
  <2>2. eval'.at = "idle" <=> eval' = NoEval
    BY <1>1 DEF NoEval
  <2>3. eval'.at # "idle" => eval'.e = e /\ eval'.state.loaded
    BY <1>1 DEF NoEval
  <2> QED
    BY <1>1, <1>2, <1>10, <2>1, <2>2, <2>3 DEF Mutex
<1> QED
  BY <1>3, <1>8, <1>9, <1>10, <1>11

\* Sending changes where the evaluation stands.
LEMMA SendShape ==
  ASSUME AlertTypeOK, Shape, Mutex, Send
  PROVE  /\ AlertTypeOK' /\ Shape' /\ Mutex' /\ (Orderly' <=> Orderly)
         /\ eval' = [at |-> IF eval.at = "alert" THEN "saveAlert" ELSE "saveRecovery",
                     e |-> eval.e, state |-> eval.state]
         /\ Len(sent') = Len(sent) + 1 /\ Len(sent) \in Nat
         /\ \A i \in 1..Len(sent) : sent'[i] = sent[i]
         /\ sent'[Len(sent) + 1] = [kind |-> eval.at, e |-> eval.e]
<1>1. /\ eval.at \in {"alert", "recovery"} /\ eval.e \in 1..Len(ended)
      /\ UNCHANGED <<ended, queued, alert, alertLog, restarts, trouble>>
      /\ sent' = Append(sent, [kind |-> eval.at, e |-> eval.e])
      /\ eval' = [eval EXCEPT !.at = IF @ = "alert" THEN "saveAlert" ELSE "saveRecovery"]
  BY DEF Send, Mutex
<1>2. eval' = [at |-> IF eval.at = "alert" THEN "saveAlert" ELSE "saveRecovery",
               e |-> eval.e, state |-> eval.state]
  BY <1>1, Fields
<1>3. /\ Len(sent') = Len(sent) + 1 /\ Len(sent) \in Nat
      /\ \A i \in 1..Len(sent) : sent'[i] = sent[i]
      /\ sent'[Len(sent) + 1] = [kind |-> eval.at, e |-> eval.e]
      /\ sent' \in Seq([kind : Kinds, e : 1..Len(ended)])
  <2> DEFINE M == [kind : Kinds, e : 1..Len(ended)]
             m == [kind |-> eval.at, e |-> eval.e]
  <2>1. sent \in Seq(M) /\ m \in M /\ sent' = Append(sent, m)
    BY <1>1 DEF AlertTypeOK, Kinds
  <2> HIDE DEF M, m
  <2>2. /\ Len(sent') = Len(sent) + 1 /\ Len(sent) \in Nat /\ sent' \in Seq(M)
        /\ \A i \in 1..Len(sent) : sent'[i] = sent[i]
        /\ sent'[Len(sent) + 1] = m
    BY <2>1
  <2> QED
    BY <2>2 DEF M, m
<1>4. AlertTypeOK'
  <2>1. eval' \in [at : {"idle", "alert", "recovery", "saveAlert", "saveRecovery"},
                   e : 0..Len(ended), state : States]
    BY <1>1, <1>2, Fields
  <2> QED
    BY <1>1, <1>3, <2>1 DEF AlertTypeOK
<1>5. Shape'
  <2>1. /\ alert'.successes + Cardinality(queued') <= Len(ended)
        /\ eval'.state.successes + Cardinality(queued') <= Len(ended)
    BY <1>1, <1>2 DEF Shape
  <2> QED
    BY <1>1, <2>1, SameShape DEF AlertTypeOK
<1>6. Orderly' <=> Orderly
  BY <1>1 DEF Orderly
<1>7. Mutex'
  <2>1. eval'.at # "idle" /\ eval' # NoEval
    BY <1>1, <1>2 DEF NoEval
  <2> QED
    BY <1>1, <1>2, <1>6, <2>1 DEF Mutex
<1> QED
  BY <1>2, <1>3, <1>4, <1>5, <1>6, <1>7

\* The holder of the mutex stores what it has sent, or cannot, and lets go.
LEMMA SaveShape ==
  ASSUME AlertTypeOK, Shape, Mutex, NEW kind \in Kinds, NEW count, NEW ok \in BOOLEAN,
         eval.at # "idle",
         count = IF kind = "alert" THEN ConsecutiveFailures(eval.e) ELSE 0,
         alertLog' = IF ok THEN alertLog \cup {[kind |-> kind, e |-> eval.e, count |-> count]}
                     ELSE alertLog,
         alert' \in States, alert'.successes = 0 \/ alert'.successes = eval.state.successes,
         eval' = NoEval, trouble' = [trouble EXCEPT !.fault = @ \/ ~ok],
         UNCHANGED <<ended, queued, sent, restarts>>
  PROVE  /\ AlertTypeOK' /\ Shape' /\ Mutex'
         /\ Orderly' => Orderly /\ ok
         /\ trouble'.latest = trouble.latest /\ trouble'.missed = trouble.missed
<1> DEFINE x == [kind |-> kind, e |-> eval.e, count |-> count]
<1>1. eval.e \in 1..Len(ended) /\ Len(ended) \in Nat /\ MaxRequests \in Nat
      /\ Len(ended) <= MaxRequests
  BY Fields DEF Mutex
<1>2. count \in 0..MaxRequests
  BY <1>1, FailuresCounted
<1>3. alertLog' \subseteq [kind : Kinds, e : 1..Len(ended), count : 0..MaxRequests]
  <2>1. x \in [kind : Kinds, e : 1..Len(ended), count : 0..MaxRequests]
    BY <1>1, <1>2
  <2>2. alertLog' \subseteq alertLog \cup {x}
    OBVIOUS
  <2> QED
    BY <2>1, <2>2 DEF AlertTypeOK
<1>4. trouble' = [latest |-> trouble.latest, disorder |-> trouble.disorder,
                  missed |-> trouble.missed, fault |-> trouble.fault \/ ~ok]
  <2>1. trouble = [latest |-> trouble.latest, disorder |-> trouble.disorder,
                   missed |-> trouble.missed, fault |-> trouble.fault]
    BY Fields
  <2> QED
    BY <2>1
<1>5. AlertTypeOK'
  <2>1. trouble' \in [latest : 0..Len(ended), disorder : BOOLEAN, missed : BOOLEAN,
                      fault : BOOLEAN]
    <3>1. (trouble.fault \/ ~ok) \in BOOLEAN
      OBVIOUS
    <3> QED
      BY <1>4, <3>1, Fields
  <2>2. eval' \in [at : {"idle", "alert", "recovery", "saveAlert", "saveRecovery"},
                   e : 0..Len(ended), state : States]
    <3>1. Unloaded \in States
      BY StateFields
    <3> QED
      BY <1>1, <3>1 DEF NoEval
  <2> QED
    BY <1>3, <2>1, <2>2 DEF AlertTypeOK
<1>6. Shape'
  <2>1. \A y \in alertLog' : y \in alertLog
          \/ y.count = IF y.kind = "alert" THEN ConsecutiveFailures(y.e) ELSE 0
    <3> TAKE y \in alertLog'
    <3>1. y \in alertLog \/ y = x
      OBVIOUS
    <3>2. x.kind = kind /\ x.e = eval.e /\ x.count = count
      OBVIOUS
    <3> QED
      BY <3>1, <3>2
  <2>2. Cardinality(queued) \in Nat /\ Cardinality(queued) <= Len(ended)
    BY Fields
  <2>3. eval.state.successes + Cardinality(queued) <= Len(ended)
    BY DEF Shape
  <2>4. eval'.state.successes = 0
    BY DEF NoEval, Unloaded
  <2>5. /\ alert'.successes + Cardinality(queued') <= Len(ended)
        /\ eval'.state.successes + Cardinality(queued') <= Len(ended)
    BY <2>2, <2>3, <2>4
  <2> QED
    BY <1>3, <2>1, <2>5, SameShape
<1>7. Mutex'
  <2>1. eval'.at = "idle"
    BY DEF NoEval
  <2> QED
    BY <1>4, <2>1 DEF Mutex
<1>8. Orderly' => Orderly /\ ok
  BY <1>4 DEF Orderly
<1> QED
  BY <1>4, <1>5, <1>6, <1>7, <1>8

\* An alert is stored.
LEMMA SaveAlertShape ==
  ASSUME AlertTypeOK, Shape, Mutex, NEW ok \in BOOLEAN, SaveAlert(ok)
  PROVE  /\ AlertTypeOK' /\ Shape' /\ Mutex'
         /\ Orderly' => Orderly /\ ok
         /\ trouble'.latest = trouble.latest /\ trouble'.missed = trouble.missed
         /\ alert'.loaded /\ alert'.alerted
         /\ alert'.last = ConsecutiveFailures(eval.e)
         /\ alert'.successes = eval.state.successes
<1>1. eval.e \in 1..Len(ended) /\ eval.state \in States /\ eval.state.loaded
      /\ Len(ended) <= MaxRequests /\ Len(ended) \in Nat /\ MaxRequests \in Nat
  BY Fields DEF Mutex, SaveAlert
<1>2. /\ eval.state = [loaded |-> eval.state.loaded, alerted |-> eval.state.alerted,
                       last |-> eval.state.last, successes |-> eval.state.successes]
      /\ eval.state.successes \in 0..MaxRequests /\ eval.state.loaded \in BOOLEAN
  BY <1>1, StateFields, Fields
<1>3. alert' = [loaded |-> eval.state.loaded, alerted |-> TRUE,
                last |-> ConsecutiveFailures(eval.e), successes |-> eval.state.successes]
  <2>1. alert' = [eval.state EXCEPT !.alerted = TRUE, !.last = ConsecutiveFailures(eval.e)]
    BY DEF SaveAlert
  <2> QED
    BY <1>2, <2>1
<1>4. ConsecutiveFailures(eval.e) \in 0..MaxRequests
  BY <1>1, FailuresCounted
<1>5. alert' \in States
  BY <1>2, <1>3, <1>4 DEF States
<1>6. /\ AlertTypeOK' /\ Shape' /\ Mutex'
      /\ Orderly' => Orderly /\ ok
      /\ trouble'.latest = trouble.latest /\ trouble'.missed = trouble.missed
  BY <1>3, <1>5, SaveShape DEF SaveAlert, Kinds
<1> QED
  BY <1>1, <1>3, <1>6

\* A recovery is stored.
LEMMA SaveRecoveryShape ==
  ASSUME AlertTypeOK, Shape, Mutex, NEW ok \in BOOLEAN, SaveRecovery(ok)
  PROVE  /\ AlertTypeOK' /\ Shape' /\ Mutex'
         /\ Orderly' => Orderly /\ ok
         /\ trouble'.latest = trouble.latest /\ trouble'.missed = trouble.missed
         /\ alert' = [loaded |-> TRUE, alerted |-> FALSE, last |-> 0, successes |-> 0]
<1>1. alert' = [loaded |-> TRUE, alerted |-> FALSE, last |-> 0, successes |-> 0]
  BY DEF SaveRecovery, Unloaded
<1>2. alert' \in States
  BY <1>1, AlertAssumption DEF States
<1>3. /\ AlertTypeOK' /\ Shape' /\ Mutex'
      /\ Orderly' => Orderly /\ ok
      /\ trouble'.latest = trouble.latest /\ trouble'.missed = trouble.missed
  <2>1. /\ eval.at # "idle" /\ eval' = NoEval /\ UNCHANGED <<ended, queued, sent, restarts>>
        /\ alertLog' = IF ok THEN alertLog \cup {[kind |-> "recovery", e |-> eval.e, count |-> 0]}
                       ELSE alertLog
        /\ trouble' = [trouble EXCEPT !.fault = @ \/ ~ok]
    BY DEF SaveRecovery
  <2>2. "recovery" \in Kinds /\ 0 = IF "recovery" = "alert" THEN ConsecutiveFailures(eval.e) ELSE 0
    BY DEF Kinds
  <2>3. alert'.successes = 0
    BY <1>1

  <2> QED
    BY <1>2, <2>1, <2>2, <2>3, SaveShape
<1> QED
  BY <1>1, <1>3

\* A restart leaves what is stored.
LEMMA StartAgainShape ==
  ASSUME AlertTypeOK, Shape, Mutex, StartAgain
  PROVE  /\ AlertTypeOK' /\ Shape' /\ Mutex'
         /\ Orderly' => Orderly /\ eval = NoEval
         /\ trouble'.latest = trouble.latest
         /\ ~trouble'.missed => ~trouble.missed /\ queued = {}
         /\ Held' = Reloaded(alertLog)
         /\ \A r : r \in ToSet(restarts') <=> r \in ToSet(restarts) \/ r = Len(ended)
<1>1. /\ Upsets < MaxUpsets /\ restarts' = Append(restarts, Len(ended))
      /\ queued' = {} /\ eval' = NoEval /\ alert' = Unloaded
      /\ UNCHANGED <<ended, alertLog, sent>>
      /\ trouble' = [trouble EXCEPT !.missed = @ \/ queued # {}, !.fault = @ \/ eval # NoEval]
  BY DEF StartAgain
<1>2. trouble' = [latest |-> trouble.latest, disorder |-> trouble.disorder,
                  missed |-> trouble.missed \/ queued # {},
                  fault |-> trouble.fault \/ eval # NoEval]
  <2>1. trouble = [latest |-> trouble.latest, disorder |-> trouble.disorder,
                   missed |-> trouble.missed, fault |-> trouble.fault]
    BY Fields
  <2> QED
    BY <1>1, <2>1
<1>3. Unloaded \in States /\ Len(ended) \in Nat /\ MaxRequests \in Nat
  BY StateFields, Fields, HeldState
<1>4. /\ restarts' \in Seq(0..Len(ended)) /\ Len(restarts') = Len(restarts) + 1
      /\ Len(restarts) \in Nat
      /\ \A r : r \in ToSet(restarts') <=> r \in ToSet(restarts) \/ r = Len(ended)
  <2> DEFINE S == 0..Len(ended)
             m == Len(ended)
  <2>1. restarts \in Seq(S) /\ m \in S /\ restarts' = Append(restarts, m)
    BY <1>1, <1>3 DEF AlertTypeOK
  <2> HIDE DEF S, m
  <2>2. /\ restarts' \in Seq(S) /\ Len(restarts') = Len(restarts) + 1 /\ Len(restarts) \in Nat
        /\ \A i \in 1..Len(restarts) : restarts'[i] = restarts[i]
        /\ restarts'[Len(restarts) + 1] = m
        /\ DOMAIN restarts = 1..Len(restarts) /\ DOMAIN restarts' = 1..Len(restarts) + 1
    BY <2>1
  <2>3. \A i \in 1..Len(restarts) + 1 : i \in 1..Len(restarts) \/ i = Len(restarts) + 1
    BY <2>2
  <2>4. 1..Len(restarts) \subseteq 1..Len(restarts) + 1
        /\ Len(restarts) + 1 \in 1..Len(restarts) + 1
    BY <2>2
  <2>5. \A r : r \in ToSet(restarts') <=> r \in ToSet(restarts) \/ r = m
    BY <2>2, <2>3, <2>4 DEF ToSet
  <2> QED
    BY <2>2, <2>5 DEF S, m
<1>5. Len(restarts') <= MaxUpsets
  <2>1. LastFrom \in Nat /\ LastFrom >= 1
    <3>1. CASE ended = <<>>
      BY <3>1 DEF LastFrom
    <3>2. CASE ended # <<>>
      <4>1. ended \in Seq([result : Results, from : 1..MaxRequests])
        BY DEF AlertTypeOK
      <4> DEFINE S == [result : Results, from : 1..MaxRequests]
      <4> HIDE DEF S
      <4>2. Len(ended) \in 1..Len(ended)
        <5>1. ended \in Seq(S)
          BY <4>1 DEF S
        <5> QED
          BY <3>2, <5>1, EmptySeq
      <4>3. LastFrom = ended[Len(ended)].from
        BY <3>2 DEF LastFrom, Last
      <4> QED
        BY <4>2, <4>3, Ended
    <3> QED
      BY <3>1, <3>2
  <2>2. MaxUpsets \in Nat
    BY AlertAssumption
  <2> QED
    BY <1>1, <1>4, <2>1, <2>2 DEF Upsets
<1>6. AlertTypeOK'
  <2>1. trouble' \in [latest : 0..Len(ended), disorder : BOOLEAN, missed : BOOLEAN,
                      fault : BOOLEAN]
    <3>1. /\ (trouble.missed \/ queued # {}) \in BOOLEAN
          /\ (trouble.fault \/ eval # NoEval) \in BOOLEAN
      OBVIOUS
    <3> QED
      BY <1>2, <3>1, Fields
  <2>2. eval' \in [at : {"idle", "alert", "recovery", "saveAlert", "saveRecovery"},
                   e : 0..Len(ended), state : States]
    <3>1. 0 \in 0..Len(ended)
      BY <1>3
    <3> QED
      BY <1>1, <1>3, <3>1 DEF NoEval
  <2>3. alert' \in States /\ queued' \subseteq 1..Len(ended)
    BY <1>1, <1>3
  <2> QED
    BY <1>1, <1>4, <1>5, <2>1, <2>2, <2>3 DEF AlertTypeOK
<1>7. Shape'
  <2>1. Cardinality(queued') = 0
    BY <1>1, FS_EmptySet
  <2>2. alert'.successes = 0 /\ eval'.state.successes = 0
    BY <1>1 DEF NoEval, Unloaded
  <2> QED
    BY <1>1, <1>3, <2>1, <2>2, SameShape DEF AlertTypeOK
<1>8. Mutex'
  <2>1. eval'.at = "idle"
    BY <1>1 DEF NoEval
  <2> QED
    BY <1>1, <2>1 DEF Mutex
<1>9. Orderly' => Orderly /\ eval = NoEval
  BY <1>2 DEF Orderly
<1>10. Held' = Reloaded(alertLog)
  <2>1. ~alert'.loaded /\ Reloaded(alertLog)' = Reloaded(alertLog)
    BY <1>1 DEF Unloaded, Reloaded
  <2> QED
    BY <2>1 DEF Held
<1>11. ~trouble'.missed => ~trouble.missed /\ queued = {}
  BY <1>2
<1> QED
  BY <1>2, <1>4, <1>6, <1>7, <1>8, <1>9, <1>10, <1>11
-----------------------------------------------------------------------------
(***************************************************************************)
(* Evaluations in order.                                                   *)
(***************************************************************************)
\* A message is about a request that has ended.
LEMMA Message ==
  ASSUME AlertTypeOK, NEW i \in 1..Len(sent)
  PROVE  /\ sent[i].kind \in Kinds /\ sent[i].e \in 1..Len(ended) /\ sent[i].e \in Nat
         /\ sent[i] = [kind |-> sent[i].kind, e |-> sent[i].e]
         /\ Len(sent) \in Nat /\ i \in Nat /\ i >= 1 /\ i <= Len(sent)
<1> DEFINE M == [kind : Kinds, e : 1..Len(ended)]
<1>1. sent \in Seq(M)
  BY DEF AlertTypeOK
<1> HIDE DEF M
<1>2. Len(sent) \in Nat /\ sent[i] \in M
  BY <1>1, OfSequence
<1>3. /\ sent[i].kind \in Kinds /\ sent[i].e \in 1..Len(ended)
      /\ sent[i] = [kind |-> sent[i].kind, e |-> sent[i].e]
  BY <1>2 DEF M
<1> QED
  BY <1>2, <1>3, Fields

\* What is said of the next latest event, of the next evaluation and of the
\* next messages is said of their numbers.
LEMMA NextLatest ==
  ASSUME NEW e, trouble'.latest = e
  PROVE  /\ Streak(trouble.latest)' = Streak(e)' /\ Run(trouble.latest)' = Run(e)'
         /\ \A a : Together(a, trouble.latest)' <=> Together(a, e)'
<1>1. Streak(trouble.latest)' = Streak(e)'
  BY DEF Streak
<1>2. Run(trouble.latest)' = Run(e)'
  BY DEF Run, Streak
<1>3. \A a : Together(a, trouble.latest)' <=> Together(a, e)'
  BY DEF Together, Streak
<1> QED
  BY <1>1, <1>2, <1>3

\* So it is for the event that is evaluated.
LEMMA NextEval ==
  ASSUME NEW e, eval'.e = e
  PROVE  /\ Streak(eval.e)' = Streak(e)'
         /\ ConsecutiveFailures(eval.e)' = ConsecutiveFailures(e)'
         /\ RecoveredBy(eval.e)' <=> RecoveredBy(e)'
         /\ \A a : Together(a, eval.e)' <=> Together(a, e)'
<1>1. Streak(eval.e)' = Streak(e)'
  BY DEF Streak
<1>2. ConsecutiveFailures(eval.e)' = ConsecutiveFailures(e)'
  BY DEF ConsecutiveFailures, Of, Window
<1>3. RecoveredBy(eval.e)' <=> RecoveredBy(e)'
  BY DEF RecoveredBy, Streak
<1>4. \A a : Together(a, eval.e)' <=> Together(a, e)'
  BY DEF Together, Streak
<1> QED
  BY <1>1, <1>2, <1>3, <1>4

\* Two alerts are about different boundaries.
Different(a, b) == ~(Together(a, b) /\ ConsecutiveFailures(a) = ConsecutiveFailures(b))

\* So it is for the messages.
LEMMA NextSent ==
  ASSUME NEW s, s = sent', \A i, j \in 1..Len(s) :
           i < j /\ s[i].kind = "alert" /\ s[j].kind = "alert" =>
             Different(s[i].e, s[j].e)'
  PROVE  AnnouncedOnce'
<1>1. ASSUME NEW i \in 1..Len(s), NEW j \in 1..Len(s), Different(s[i].e, s[j].e)'
      PROVE  ~(/\ Streak(sent[i].e)' = Streak(sent[j].e)'
               /\ ended'[sent'[i].e].from = ended'[sent'[j].e].from
               /\ ConsecutiveFailures(sent[i].e)' = ConsecutiveFailures(sent[j].e)')
  BY <1>1 DEF Different, Together, Streak, ConsecutiveFailures, Of, Window
<1> QED
  BY <1>1 DEF AnnouncedOnce

\* Events stay together.
LEMMA StaysTogether ==
  ASSUME AlertTypeOK, Longer, NEW a \in 1..Len(ended), NEW b \in 1..Len(ended)
  PROVE  /\ Together(a, b)' <=> Together(a, b)
         /\ Different(a, b)' <=> Different(a, b)
<1>1. Len(ended) \in Nat
  BY Fields
<1>2. /\ Streak(a)' = Streak(a) /\ Streak(b)' = Streak(b)
      /\ ended'[a] = ended[a] /\ ended'[b] = ended[b]
      /\ ConsecutiveFailures(a)' = ConsecutiveFailures(a)
      /\ ConsecutiveFailures(b)' = ConsecutiveFailures(b)
  BY <1>1, Stable, StableStreak
<1>3. Together(a, b)' <=> Together(a, b)
  BY <1>2 DEF Together
<1> QED
  BY <1>2, <1>3 DEF Different

\* Messages that were sent before stay about different boundaries.
LEMMA StayDifferent ==
  ASSUME AlertTypeOK, Longer, AnnouncedOnce, NEW i \in 1..Len(sent), NEW j \in 1..Len(sent),
         i < j, sent[i].kind = "alert", sent[j].kind = "alert"
  PROVE  \A a, b : a = sent[i].e /\ b = sent[j].e => Different(a, b)'
<1> TAKE a, b
<1> HAVE a = sent[i].e /\ b = sent[j].e
<1>1. a \in 1..Len(ended) /\ b \in 1..Len(ended)
  BY Message
<1>2. Different(a, b)
  BY DEF AnnouncedOnce, Different, Together
<1> QED
  BY <1>1, <1>2, StaysTogether

\* A request that ends is of no concern to the evaluations before it.
LEMMA RequestEndsOrder ==
  ASSUME AlertTypeOK, Mutex, Longer, Kept, Follows, Reasons, Told,
         UNCHANGED <<eval, alert, alertLog, sent>>, trouble'.latest = trouble.latest
  PROVE  Kept' /\ Follows' /\ Reasons' /\ Told'
<1>1. \A x \in alertLog : x.e \in 1..Len(ended) /\ x.e \in Nat
  BY Stored
<1>2. /\ trouble.latest \in 0..Len(ended) /\ Len(ended) \in Nat
      /\ eval.at # "idle" => eval.e \in 1..Len(ended)
  BY Fields DEF Mutex
<1>3. Kept'
  BY DEF Kept
<1>4. Held' = Held /\ \A a : Newest(a)' <=> Newest(a)
  BY DEF Held, Newest, Reloaded
<1>5. Streak(trouble.latest)' = Streak(trouble.latest)
  <2> DEFINE l == trouble.latest
  <2>1. PICK m : m = l
    OBVIOUS
  <2>2. Streak(m)' = Streak(m)
    BY <1>2, <2>1, StableStreak
  <2>3. Streak(trouble.latest)' = Streak(m)'
    BY <2>1, NextLatest
  <2> QED
    BY <2>1, <2>2, <2>3
<1>6. \A x \in alertLog : ConsecutiveFailures(x.e)' = ConsecutiveFailures(x.e)
  <2> TAKE x \in alertLog
  <2>1. x.e \in 1..Len(ended)
    BY <1>1
  <2>2. Longer
    OBVIOUS
  <2> QED
    BY <2>1, <2>2, Stable
<1>7. \A x \in alertLog : Together(x.e, trouble.latest)' <=> Together(x.e, trouble.latest)
  <2> TAKE x \in alertLog
  <2>1. PICK m : m = trouble.latest
    OBVIOUS
  <2>2. x.e <= m /\ m \in 1..Len(ended) /\ x.e \in 1..Len(ended)
    BY <1>1, <1>2, <2>1 DEF Kept
  <2>3. Together(x.e, m)' <=> Together(x.e, m)
    BY <2>2, StaysTogether
  <2>4. Together(x.e, trouble.latest)' <=> Together(x.e, m)'
    BY <2>1, NextLatest
  <2> QED
    BY <2>1, <2>3, <2>4
<1>8. Follows'
  <2>1. SUFFICES ASSUME eval'.at = "idle"
        PROVE  /\ Held'.alerted => \E a \in alertLog' : Newest(a)' /\ a.kind = "alert"
               /\ ~Held'.alerted => Held'.last = 0 /\ Held'.successes = 0
               /\ Held'.last # 0 => \E a \in alertLog' :
                    Newest(a)' /\ a.kind = "alert" /\ Held'.last = ConsecutiveFailures(a.e)'
               /\ Held'.successes # 0 => \E a \in alertLog' :
                    Newest(a)' /\ \E s \in Streak(trouble.latest)' : a.e < s
               /\ \A x \in alertLog' :
                    x.kind = "alert" /\ Together(x.e, trouble.latest)' =>
                      ConsecutiveFailures(x.e)' <= Held'.last
    BY DEF Follows
  <2> QED
    BY <1>4, <1>5, <1>6, <1>7, <2>1 DEF Follows
<1>9. Reasons'
  <2>1. CASE eval.at = "idle"
    BY <2>1 DEF Reasons
  <2>2. CASE eval.at # "idle"
    <3>1. PICK m : m = eval.e
      OBVIOUS
    <3>2. m \in 1..Len(ended)
      BY <1>2, <2>2, <3>1
    <3>3. ConsecutiveFailures(m)' = ConsecutiveFailures(m)
      BY <3>2, Stable
    <3>4. Streak(m)' = Streak(m)
      BY <1>2, <3>2, StableStreak
    <3>5. \A x \in alertLog : Together(x.e, m)' <=> Together(x.e, m)
      BY <1>1, <3>2, StaysTogether
    <3>6. /\ Streak(eval.e)' = Streak(m)'
          /\ ConsecutiveFailures(eval.e)' = ConsecutiveFailures(m)'
          /\ \A a : Together(a, eval.e)' <=> Together(a, m)'
      BY <3>1, NextEval
    <3> QED
      BY <1>4, <1>6, <3>1, <3>3, <3>4, <3>5, <3>6 DEF Reasons
  <2> QED
    BY <2>1, <2>2
<1>10. Told'
  <2>1. PICK s : s = sent
    OBVIOUS
  <2>2. \A i, j \in 1..Len(s) : i < j /\ s[i].kind = "alert" /\ s[j].kind = "alert" =>
          Different(s[i].e, s[j].e)'
    BY <2>1, StayDifferent DEF Told
  <2>3. AnnouncedOnce'
    BY <2>1, <2>2, NextSent
  <2>4. Alternating'
    BY DEF Told, Alternating
  <2> QED
    BY <2>3, <2>4 DEF Told
<1> QED
  BY <1>3, <1>8, <1>9, <1>10

\* When no event has been added nothing changes that is computed for one.
LEMMA SameEvents ==
  ASSUME AlertTypeOK, ended' = ended
  PROVE  /\ Longer
         /\ \A e \in 1..Len(ended) :
              /\ ConsecutiveFailures(e)' = ConsecutiveFailures(e)
              /\ RecoveredBy(e)' <=> RecoveredBy(e)
         /\ \A e \in 0..Len(ended) : Streak(e)' = Streak(e) /\ Run(e)' = Run(e)
         /\ \A a, b \in 1..Len(ended) : /\ Together(a, b)' <=> Together(a, b)
                                        /\ Different(a, b)' <=> Different(a, b)
<1>1. Longer /\ Len(ended) \in Nat
  BY Fields DEF Longer
<1>2. \A e \in 1..Len(ended) :
        /\ ConsecutiveFailures(e)' = ConsecutiveFailures(e)
        /\ RecoveredBy(e)' <=> RecoveredBy(e)
  BY <1>1, Stable, StableStreak
<1>3. \A e \in 0..Len(ended) : Streak(e)' = Streak(e) /\ Run(e)' = Run(e)
  BY <1>1, StableStreak
<1>4. \A a, b \in 1..Len(ended) : /\ Together(a, b)' <=> Together(a, b)
                                  /\ Different(a, b)' <=> Different(a, b)
  BY <1>1, StaysTogether
<1> QED
  BY <1>1, <1>2, <1>3, <1>4

\* What the state says of an event after the latest.
LEMMA FoundState ==
  ASSUME AlertTypeOK, Shape, Mutex, Kept, Follows, eval.at = "idle", NEW e \in 1..Len(ended),
         e > trouble.latest, NEW f, NEW left,
         f.last = IF ConsecutiveFailures(e) < Held.last THEN 0 ELSE Held.last,
         f.alerted = Held.alerted, f.successes = Held.successes,
         left = Successes(e, f)
  PROVE  /\ f.last \in Nat
         /\ \A x \in alertLog : x.e < e /\ x.e <= trouble.latest
         /\ f.alerted => \E a \in alertLog : Newest(a) /\ a.kind = "alert"
         /\ ~f.alerted => f.last = 0 /\ left = 0
         /\ f.last # 0 => \E a \in alertLog :
              Newest(a) /\ a.kind = "alert" /\ f.last = ConsecutiveFailures(a.e)
         /\ left # 0 => \E a \in alertLog :
              Newest(a) /\ a.kind = "alert" /\ \E s \in Streak(e) : a.e < s
         /\ \A x \in alertLog : x.kind = "alert" /\ Together(x.e, e) =>
              ConsecutiveFailures(x.e) <= f.last
<1>1. /\ Held \in States /\ Held.last \in Nat /\ Held.successes \in Nat /\ Held.alerted \in BOOLEAN
  BY HeldState, StateFields
<1>2. /\ trouble.latest \in 0..Len(ended) /\ Len(ended) \in Nat /\ e \in Nat
      /\ ConsecutiveFailures(e) \in Nat /\ Forward
  BY Fields, FailuresCounted DEF Shape
<1>3. \A x \in alertLog : /\ x.e \in 1..Len(ended) /\ x.e \in Nat /\ x.e <= trouble.latest
                          /\ x.e < e /\ ConsecutiveFailures(x.e) \in Nat
  <2> TAKE x \in alertLog
  <2>1. x.e \in 1..Len(ended) /\ x.e \in Nat /\ x.e <= trouble.latest
    BY Stored DEF Kept
  <2> QED
    BY <1>2, <2>1, FailuresCounted
<1>4. /\ Held.alerted => \E a \in alertLog : Newest(a) /\ a.kind = "alert"
      /\ ~Held.alerted => Held.last = 0 /\ Held.successes = 0
      /\ Held.last # 0 => \E a \in alertLog :
           Newest(a) /\ a.kind = "alert" /\ Held.last = ConsecutiveFailures(a.e)
      /\ Held.successes # 0 => \E a \in alertLog :
           Newest(a) /\ \E s \in Streak(trouble.latest) : a.e < s
      /\ \A x \in alertLog :
           x.kind = "alert" /\ Together(x.e, trouble.latest) =>
             ConsecutiveFailures(x.e) <= Held.last
  BY DEF Follows
<1>5. ~f.alerted => f.last = 0 /\ left = 0
  BY <1>4 DEF Successes
<1>6. f.last # 0 => f.last = Held.last
  OBVIOUS
<1>7. ASSUME left # 0
      PROVE  \E a \in alertLog : Newest(a) /\ a.kind = "alert" /\ \E s \in Streak(e) : a.e < s
  <2>1. f.alerted
    BY <1>5, <1>7
  <2>2. PICK a \in alertLog : Newest(a) /\ a.kind = "alert"
    BY <1>4, <2>1
  <2>3. CASE ended[e].result = "success"
    <3>1. e \in Streak(e) /\ a.e < e
      BY <1>2, <1>3, <2>3 DEF Streak
    <3> QED
      BY <2>2, <3>1
  <2>4. CASE ended[e].result # "success"
    <3>1. Held.successes # 0
      BY <1>7, <2>4 DEF Successes
    <3>2. PICK b \in alertLog : Newest(b) /\ \E s \in Streak(trouble.latest) : b.e < s
      BY <1>4, <3>1
    <3>3. PICK s \in Streak(trouble.latest) : b.e < s
      BY <3>2
    <3>4. s \in Streak(e)
      BY <1>2, <3>3 DEF Streak
    <3>5. a.e = b.e
      BY <1>3, <2>2, <3>2 DEF Newest
    <3> QED
      BY <2>2, <3>3, <3>4, <3>5
  <2> QED
    BY <2>3, <2>4
<1>8. ASSUME NEW x \in alertLog, x.kind = "alert", Together(x.e, e)
      PROVE  ConsecutiveFailures(x.e) <= f.last
  <2>1. trouble.latest \in 1..Len(ended) /\ x.e <= trouble.latest /\ trouble.latest <= e
        /\ x.e \in 1..Len(ended)
    BY <1>2, <1>3
  <2>2. Together(x.e, trouble.latest)
    <3>1. \A b \in 1..Len(ended) : x.e <= b /\ b <= e => Together(x.e, b)
      BY <1>2, <1>8, <2>1, Between
    <3> QED
      BY <2>1, <3>1
  <2>3. ConsecutiveFailures(x.e) <= Held.last
    BY <1>4, <1>8, <2>2
  <2>4. ConsecutiveFailures(e) >= Held.last
    <3>1. CASE Held.last = 0
      BY <1>2, <3>1
    <3>2. CASE Held.last # 0
      <4>1. PICK a \in alertLog :
              Newest(a) /\ a.kind = "alert" /\ Held.last = ConsecutiveFailures(a.e)
        BY <1>4, <3>2
      <4>2. x.e <= a.e /\ a.e <= e /\ a.e \in 1..Len(ended)
        BY <1>2, <1>3, <4>1 DEF Newest
      <4>3. Together(a.e, e)
        <5>1. \A b \in 1..Len(ended) : x.e <= b /\ b <= e => Together(b, e)
          BY <1>2, <1>8, <2>1, Between
        <5> QED
          BY <4>2, <5>1
      <4>4. ConsecutiveFailures(a.e) <= ConsecutiveFailures(e)
        BY <1>2, <4>2, <4>3, CountGrows
      <4> QED
        BY <4>1, <4>4
    <3> QED
      BY <3>1, <3>2
  <2> QED
    BY <1>1, <1>2, <2>3, <2>4
<1>9. \A x \in alertLog : x.e < e /\ x.e <= trouble.latest
  BY <1>3
<1>10. f.last \in Nat
  BY <1>1
<1>11. f.alerted => \E a \in alertLog : Newest(a) /\ a.kind = "alert"
  BY <1>4
<1>12. f.last # 0 => \E a \in alertLog :
         Newest(a) /\ a.kind = "alert" /\ f.last = ConsecutiveFailures(a.e)
  BY <1>4, <1>6
<1> QED
  BY <1>5, <1>7, <1>8, <1>9, <1>10, <1>11, <1>12

\* The state after an evaluation that sends nothing is the one it leaves.
LEMMA HeldAfter ==
  ASSUME alert'.loaded
  PROVE  Held' = alert'
BY DEF Held

\* An evaluation in order knows why it goes on to send, and else leaves the state
\* of the newest stored event.
LEMMA EvaluateOrder ==
  ASSUME AlertTypeOK, Shape, Mutex, Kept, Follows, Reasons, Told, NEW e \in queued, NEW kinds,
         Evaluate(e, kinds), e > trouble.latest, trouble'.latest = e, LoadState(kinds) = Held
  PROVE  Kept' /\ Follows' /\ Reasons' /\ Told'
<1> DEFINE f == Found(e, kinds)
           g == Left(e, kinds)
<1>1. /\ e \in 1..Len(ended) /\ eval = NoEval
      /\ f.alerted = Held.alerted /\ f.successes = Held.successes
      /\ f.last = IF ConsecutiveFailures(e) < Held.last THEN 0 ELSE Held.last
      /\ g.loaded /\ g.alerted = f.alerted /\ g.last = f.last
      /\ g.successes = Successes(e, f) /\ g.successes \in Nat
      /\ \/ /\ Trigger(e, f.last)
            /\ eval' = [at |-> "alert", e |-> e, state |-> g] /\ alert' = Held
         \/ /\ Recovers(e, kinds)
            /\ eval' = [at |-> "recovery", e |-> e, state |-> g] /\ alert' = Held
         \/ /\ ~Trigger(e, f.last) /\ ~Recovers(e, kinds)
            /\ eval' = eval /\ alert' = g
  <2>1. g \in States
    BY EvaluateCases
  <2> QED
    BY <2>1, EvaluateCases, StateFields
<1>2. Recovers(e, kinds) => /\ ~Active(e) /\ f.alerted /\ g.successes >= AlertSuccesses
  BY DEF Recovers
<1>3. UNCHANGED <<ended, alertLog, sent, restarts>> /\ eval.at = "idle"
  BY <1>1 DEF Evaluate, NoEval
<1> HIDE DEF f, g
<1>4. /\ f.last \in Nat
      /\ \A x \in alertLog : x.e < e /\ x.e <= trouble.latest
      /\ f.alerted => \E a \in alertLog : Newest(a) /\ a.kind = "alert"
      /\ ~f.alerted => f.last = 0 /\ g.successes = 0
      /\ f.last # 0 => \E a \in alertLog :
           Newest(a) /\ a.kind = "alert" /\ f.last = ConsecutiveFailures(a.e)
      /\ g.successes # 0 => \E a \in alertLog :
           Newest(a) /\ a.kind = "alert" /\ \E s \in Streak(e) : a.e < s
      /\ \A x \in alertLog : x.kind = "alert" /\ Together(x.e, e) =>
           ConsecutiveFailures(x.e) <= f.last
  BY <1>1, <1>3, FoundState
<1>5. /\ \A x \in alertLog : x.e \in 1..Len(ended) /\ ConsecutiveFailures(x.e) \in Nat
      /\ ConsecutiveFailures(e) \in Nat
  BY <1>1, Stored, FailuresCounted
<1>6. /\ ConsecutiveFailures(e)' = ConsecutiveFailures(e)
      /\ Streak(e)' = Streak(e)
      /\ \A x \in alertLog : /\ ConsecutiveFailures(x.e)' = ConsecutiveFailures(x.e)
                             /\ Together(x.e, e)' <=> Together(x.e, e)
      /\ \A a : Newest(a)' <=> Newest(a)
  <2>1. e \in 0..Len(ended)
    BY <1>1
  <2>2. \A a : Newest(a)' <=> Newest(a)
    BY <1>3 DEF Newest
  <2> QED
    BY <1>1, <1>3, <1>5, <2>1, <2>2, SameEvents
<1>7. Kept'
  <2>1. eval'.at \notin {"saveAlert", "saveRecovery"}
    BY <1>1, <1>3
  <2>2. \A x \in alertLog' : x.e <= trouble'.latest /\ x.e < trouble'.latest
    <3>1. \A x \in alertLog : x.e < e /\ x.e \in Nat /\ e \in Nat
      BY <1>1, <1>4, Stored
    <3> QED
      BY <1>3, <3>1
  <2> QED
    BY <1>3, <2>1, <2>2 DEF Kept
<1>8. Follows'
  <2>1. SUFFICES ASSUME eval'.at = "idle"
        PROVE  /\ Held'.alerted => \E a \in alertLog' : Newest(a)' /\ a.kind = "alert"
               /\ ~Held'.alerted => Held'.last = 0 /\ Held'.successes = 0
               /\ Held'.last # 0 => \E a \in alertLog' :
                    Newest(a)' /\ a.kind = "alert" /\ Held'.last = ConsecutiveFailures(a.e)'
               /\ Held'.successes # 0 => \E a \in alertLog' :
                    Newest(a)' /\ \E s \in Streak(trouble.latest)' : a.e < s
               /\ \A x \in alertLog' :
                    x.kind = "alert" /\ Together(x.e, trouble.latest)' =>
                      ConsecutiveFailures(x.e)' <= Held'.last
    BY DEF Follows
  <2>2. alert' = g
    BY <1>1, <2>1
  <2>3. Held' = g
    BY <1>1, <2>2, HeldAfter
  <2>4. /\ Streak(trouble.latest)' = Streak(e)'
        /\ \A a : Together(a, trouble.latest)' <=> Together(a, e)'
    BY NextLatest
  <2> QED
    BY <1>1, <1>3, <1>4, <1>6, <2>3, <2>4
<1>9. Reasons'
  <2>1. CASE eval'.at = "alert"
    <3>1. Trigger(e, f.last) /\ eval'.e = e /\ eval'.state = g
      BY <1>1, <1>3, <2>1
    <3>2. ConsecutiveFailures(e) > f.last /\ Active(e)
      BY <3>1 DEF Trigger
    <3>3. g.successes = 0
      BY <1>1, <3>2 DEF Successes
    <3>4. \A x \in alertLog : x.kind = "alert" /\ Together(x.e, e) =>
            ConsecutiveFailures(x.e) # ConsecutiveFailures(e)
      BY <1>4, <1>5, <3>2
    <3>5. /\ ConsecutiveFailures(eval.e)' = ConsecutiveFailures(e)'
          /\ \A a : Together(a, eval.e)' <=> Together(a, e)'
      BY <3>1, NextEval
    <3> QED
      BY <1>3, <1>6, <2>1, <3>1, <3>3, <3>4, <3>5 DEF Reasons
  <2>2. CASE eval'.at = "recovery"
    <3>1. Recovers(e, kinds) /\ eval'.e = e
      BY <1>1, <1>3, <2>2
    <3>2. g.successes # 0
      BY <1>1, <1>2, <3>1, AlertAssumption
    <3>3. Streak(eval.e)' = Streak(e)'
      BY <3>1, NextEval
    <3>4. \E a \in alertLog : Newest(a) /\ a.kind = "alert" /\ \E s \in Streak(e) : a.e < s
      BY <1>4, <3>2
    <3> QED
      BY <1>3, <1>6, <2>2, <3>3, <3>4 DEF Reasons
  <2>3. CASE eval'.at = "idle"
    BY <2>3 DEF Reasons
  <2> QED
    BY <1>1, <1>3, <2>1, <2>2, <2>3
<1>10. Told'
  <2>1. PICK s : s = sent
    OBVIOUS
  <2>2. \A i, j \in 1..Len(s) : i < j /\ s[i].kind = "alert" /\ s[j].kind = "alert" =>
          Different(s[i].e, s[j].e)'
    BY <1>3, <2>1, StayDifferent, SameEvents DEF Told
  <2>3. AnnouncedOnce'
    BY <1>3, <2>1, <2>2, NextSent
  <2>4. Alternating'
    BY <1>3 DEF Told, Alternating
  <2> QED
    BY <2>3, <2>4 DEF Told
<1> QED
  BY <1>7, <1>8, <1>9, <1>10

\* A message follows those of the stored events.
LEMMA SendOrder ==
  ASSUME AlertTypeOK, Shape, Mutex, Orderly, Kept, Follows, Reasons, Told, Send
  PROVE  Kept' /\ Follows' /\ Reasons' /\ Told'
<1> DEFINE n == Len(sent)
<1>1. /\ eval' = [at |-> IF eval.at = "alert" THEN "saveAlert" ELSE "saveRecovery",
                  e |-> eval.e, state |-> eval.state]
      /\ Len(sent') = n + 1 /\ n \in Nat
      /\ \A i \in 1..n : sent'[i] = sent[i]
      /\ sent'[n + 1] = [kind |-> eval.at, e |-> eval.e]
  BY SendShape
<1>2. /\ eval.at \in {"alert", "recovery"} /\ eval.e \in 1..Len(ended)
      /\ eval.e = trouble.latest /\ eval.e \in Nat
      /\ UNCHANGED <<ended, queued, alert, alertLog, restarts, trouble>>
  BY DEF Send, Mutex
<1>3. \A i \in 1..n + 1 : i \in 1..n \/ i = n + 1
  BY <1>1
<1>4. \A i \in 1..n : /\ \E x \in alertLog : sent[i] = [kind |-> x.kind, e |-> x.e]
                      /\ sent[i].e < eval.e /\ sent[i].e \in Nat
  <2> TAKE i \in 1..n
  <2>1. PICK x \in alertLog : sent[i] = [kind |-> x.kind, e |-> x.e]
    BY <1>2 DEF Kept
  <2>2. x.e < trouble.latest /\ x.e \in Nat
    BY <1>2, Stored DEF Kept
  <2> QED
    BY <1>2, <2>1, <2>2
<1>5. \A x \in alertLog : \E i \in 1..n : sent[i] = [kind |-> x.kind, e |-> x.e]
  BY DEF Kept
<1>6. n + 1 \in 1..n + 1 /\ \A i \in 1..n : i \in 1..n + 1 /\ i < n + 1
  BY <1>1
<1>7. Kept'
  <2>1. \A i, j \in 1..n + 1 : i < j => sent'[i].e < sent'[j].e
    <3> TAKE i, j \in 1..n + 1
    <3> HAVE i < j
    <3>1. i \in 1..n
      BY <1>1, <1>3
    <3>2. CASE j = n + 1
      <4>1. sent'[j].e = eval.e
        BY <1>1, <3>2
      <4> QED
        BY <1>1, <1>4, <3>1, <4>1
    <3>3. CASE j \in 1..n
      BY <1>1, <3>1, <3>3 DEF Kept
    <3> QED
      BY <1>3, <3>2, <3>3
  <2>2. \A i \in 1..n + 1 :
       \/ \E x \in alertLog : sent'[i] = [kind |-> x.kind, e |-> x.e]
       \/ /\ i = n + 1 /\ sent'[i].e = eval'.e
          /\ \/ eval'.at = "saveAlert" /\ sent'[i].kind = "alert"
             \/ eval'.at = "saveRecovery" /\ sent'[i].kind = "recovery"
    <3> TAKE i \in 1..n + 1
    <3>1. CASE i \in 1..n
      BY <1>1, <1>4, <3>1
    <3>2. CASE i = n + 1
      BY <1>1, <1>2, <3>2
    <3> QED
      BY <1>3, <3>1, <3>2
  <2>3. \A x \in alertLog : \E i \in 1..n + 1 : sent'[i] = [kind |-> x.kind, e |-> x.e]
    <3> TAKE x \in alertLog
    <3>1. PICK i \in 1..n : sent[i] = [kind |-> x.kind, e |-> x.e]
      BY <1>5
    <3> QED
      BY <1>1, <1>6, <3>1
  <2>4. sent'[n + 1] = [kind |-> IF eval'.at = "saveAlert" THEN "alert" ELSE "recovery",
                        e |-> eval'.e]
    <3>1. CASE eval.at = "alert"
      BY <1>1, <3>1
    <3>2. CASE eval.at = "recovery"
      BY <1>1, <3>2
    <3> QED
      BY <1>2, <3>1, <3>2
  <2>5. /\ \A x, y \in alertLog : x.e = y.e => x = y
        /\ \A x \in alertLog : x.e <= trouble.latest
        /\ \A x \in alertLog : x.e < trouble.latest
    BY <1>2 DEF Kept
  <2>6. \E i \in 1..n + 1 :
          sent'[i] = [kind |-> IF eval'.at = "saveAlert" THEN "alert" ELSE "recovery",
                      e |-> eval'.e]
    BY <1>6, <2>4
  <2> QED
    BY <1>1, <1>2, <2>1, <2>2, <2>3, <2>5, <2>6 DEF Kept
<1>8. eval'.at # "idle" /\ eval'.at \in {"saveAlert", "saveRecovery"}
  BY <1>1
<1>9. Follows'
  BY <1>8 DEF Follows
<1>10. PICK e : e = eval.e
  OBVIOUS
<1>11. /\ e \in 1..Len(ended) /\ e \in 0..Len(ended)
  BY <1>2, <1>10
<1>12. Reasons'
  <2>1. Streak(eval.e)' = Streak(e)'
    BY <1>1, <1>10, NextEval
  <2>2. Streak(e)' = Streak(e)
    BY <1>2, <1>11, SameEvents
  <2>3. \A a : Newest(a)' <=> Newest(a)
    BY <1>2 DEF Newest
  <2>4. eval'.at = "saveAlert" => eval'.state.successes = 0
    <3> HAVE eval'.at = "saveAlert"
    <3>1. eval.at = "alert" /\ eval'.state = eval.state
      BY <1>1, <1>2
    <3> QED
      BY <3>1 DEF Reasons
  <2>5. eval'.at = "saveRecovery" => \E a \in alertLog :
          Newest(a) /\ a.kind = "alert" /\ \E s \in Streak(e) : a.e < s
    <3> HAVE eval'.at = "saveRecovery"
    <3>1. eval.at = "recovery"
      BY <1>1, <1>2
    <3> QED
      BY <1>10, <3>1 DEF Reasons
  <2> QED
    BY <1>2, <1>8, <2>1, <2>2, <2>3, <2>4, <2>5 DEF Reasons
<1>13. AnnouncedOnce'
  <2>1. PICK s : s = sent'
    OBVIOUS
  <2>2. ASSUME NEW i \in 1..n + 1, NEW j \in 1..n + 1, i < j, s[i].kind = "alert",
               s[j].kind = "alert"
        PROVE  Different(s[i].e, s[j].e)'
    <3>1. i \in 1..n /\ s[i] = sent[i]
      BY <1>1, <1>3, <2>1, <2>2
    <3>2. CASE j \in 1..n
      BY <1>1, <1>2, <2>1, <2>2, <3>1, <3>2, StayDifferent, SameEvents DEF Told
    <3>3. CASE j = n + 1
      <4>1. eval.at = "alert" /\ s[j].e = e
        BY <1>1, <1>10, <2>1, <2>2, <3>3
      <4>2. PICK x \in alertLog : sent[i] = [kind |-> x.kind, e |-> x.e]
        BY <1>4, <3>1
      <4>3. x.kind = "alert" /\ s[i].e = x.e /\ x.e \in 1..Len(ended)
        BY <2>2, <3>1, <4>2, Stored
      <4>4. Different(x.e, e)
        BY <1>10, <4>1, <4>3 DEF Reasons, Different
      <4>5. Different(x.e, e)'
        BY <1>2, <1>11, <4>3, <4>4, SameEvents
      <4> QED
        BY <4>1, <4>3, <4>5
    <3> QED
      BY <1>3, <3>2, <3>3
  <2> QED
    BY <1>1, <2>1, <2>2, NextSent
<1>14. Alternating'
  <2>1. ASSUME NEW j \in 1..n + 1, sent'[j].kind = "recovery"
        PROVE  j > 1 /\ sent'[j - 1].kind = "alert"
    <3>1. CASE j \in 1..n
      <4>1. j > 1 /\ sent[j - 1].kind = "alert"
        BY <1>1, <2>1, <3>1 DEF Told, Alternating
      <4>2. j - 1 \in 1..n
        BY <1>1, <3>1, <4>1
      <4> QED
        BY <1>1, <4>1, <4>2
    <3>2. CASE j = n + 1
      <4>1. eval.at = "recovery"
        BY <1>1, <2>1, <3>2
      <4>2. PICK a \in alertLog : Newest(a) /\ a.kind = "alert"
        BY <4>1 DEF Reasons
      <4>3. PICK i \in 1..n : sent[i] = [kind |-> "alert", e |-> a.e]
        BY <1>5, <4>2
      <4>4. n \in 1..n /\ i <= n
        BY <1>1, <4>3
      <4>5. PICK x \in alertLog : sent[n] = [kind |-> x.kind, e |-> x.e]
        BY <1>4, <4>4
      <4>6. x.e <= a.e /\ x.e \in Nat /\ a.e \in Nat
        BY <4>2, <4>5, Stored DEF Newest
      <4>7. i = n
        <5>1. i < n => a.e < x.e
          BY <4>3, <4>4, <4>5 DEF Kept
        <5> QED
          BY <1>1, <4>4, <4>6, <5>1
      <4> QED
        BY <1>1, <3>2, <4>3, <4>4, <4>7
    <3> QED
      BY <1>3, <3>1, <3>2
  <2> QED
    BY <1>1, <2>1 DEF Alternating
<1> QED
  BY <1>7, <1>9, <1>12, <1>13, <1>14 DEF Told

\* What was told stays told.
LEMMA ToldBefore ==
  ASSUME AlertTypeOK, Told, ended' = ended, sent' = sent
  PROVE  Told'
<1>1. PICK s : s = sent
  OBVIOUS
<1>2. \A i, j \in 1..Len(s) : i < j /\ s[i].kind = "alert" /\ s[j].kind = "alert" =>
        Different(s[i].e, s[j].e)'
  BY <1>1, StayDifferent, SameEvents DEF Told
<1>3. AnnouncedOnce'
  BY <1>1, <1>2, NextSent
<1>4. Alternating'
  BY DEF Told, Alternating
<1> QED
  BY <1>3, <1>4 DEF Told

\* The event that is stored is about the last message, and the newest.
LEMMA StoredOrder ==
  ASSUME AlertTypeOK, Mutex, Orderly, Kept, NEW x,
         \/ eval.at = "saveAlert" /\ x.kind = "alert"
         \/ eval.at = "saveRecovery" /\ x.kind = "recovery",
         x.e = eval.e, eval' = NoEval, alertLog' = alertLog \cup {x}, sent' = sent,
         trouble'.latest = trouble.latest
  PROVE  /\ Kept' /\ eval'.at = "idle"
         /\ eval.e = trouble.latest /\ eval.e \in 1..Len(ended) /\ eval.e \in Nat
         /\ \A y \in alertLog : y.e < eval.e /\ y.e \in 1..Len(ended)
         /\ x \in alertLog' /\ Newest(x)'
<1>1. /\ eval.e = trouble.latest /\ eval.e \in 1..Len(ended) /\ eval.e \in Nat
      /\ eval.at \in {"saveAlert", "saveRecovery"}
  BY DEF Mutex
<1>2. \A y \in alertLog : y.e < eval.e /\ y.e \in 1..Len(ended) /\ y.e \in Nat
  BY <1>1, Stored DEF Kept
<1>3. eval'.at = "idle"
  BY DEF NoEval
<1>4. \A y, z \in alertLog' : y.e = z.e => y = z
  BY <1>1, <1>2 DEF Kept
<1>5. \A y \in alertLog' : y.e <= eval.e
  BY <1>1, <1>2
<1>6. \A i \in 1..Len(sent) : \E y \in alertLog' : sent[i] = [kind |-> y.kind, e |-> y.e]
  <2> TAKE i \in 1..Len(sent)
  <2>1. CASE \E y \in alertLog : sent[i] = [kind |-> y.kind, e |-> y.e]
    BY <2>1
  <2>2. CASE /\ i = Len(sent) /\ sent[i].e = eval.e
             /\ \/ eval.at = "saveAlert" /\ sent[i].kind = "alert"
                \/ eval.at = "saveRecovery" /\ sent[i].kind = "recovery"
    <3>1. sent[i].kind = x.kind /\ sent[i].e = x.e
      BY <2>2
    <3>2. sent[i] = [kind |-> sent[i].kind, e |-> sent[i].e]
      BY Message
    <3>3. sent[i] = [kind |-> x.kind, e |-> x.e]
      BY <3>1, <3>2
    <3>4. x \in alertLog'
      OBVIOUS
    <3> QED
      BY <3>3, <3>4
  <2> QED
    BY <2>1, <2>2 DEF Kept
<1>7. \A y \in alertLog' : \E i \in 1..Len(sent) : sent[i] = [kind |-> y.kind, e |-> y.e]
  <2> TAKE y \in alertLog'
  <2>1. CASE y \in alertLog
    BY <2>1 DEF Kept
  <2>2. CASE y = x
    <3>1. PICK i \in 1..Len(sent) :
            sent[i] = [kind |-> IF eval.at = "saveAlert" THEN "alert" ELSE "recovery",
                       e |-> eval.e]
      BY <1>1 DEF Kept
    <3>2. sent[i] = [kind |-> x.kind, e |-> x.e]
      BY <3>1
    <3> QED
      BY <2>2, <3>2
  <2> QED
    BY <2>1, <2>2
<1>8. \A i, j \in 1..Len(sent) : i < j => sent[i].e < sent[j].e
  BY DEF Kept
<1>9. Kept'
  BY <1>1, <1>3, <1>4, <1>5, <1>6, <1>7, <1>8 DEF Kept
<1>10. x \in alertLog' /\ Newest(x)'
  BY <1>5 DEF Newest
<1> QED
  BY <1>1, <1>2, <1>3, <1>9, <1>10

\* An alert that is stored makes the state that of the newest event.
LEMMA SaveAlertOrder ==
  ASSUME AlertTypeOK, Shape, Mutex, Orderly, Kept, Follows, Reasons, Told, SaveAlert(TRUE)
  PROVE  Kept' /\ Follows' /\ Reasons' /\ Told'
<1>0. PICK x : x = [kind |-> "alert", e |-> eval.e, count |-> ConsecutiveFailures(eval.e)]
  OBVIOUS
<1>1. /\ eval.at = "saveAlert" /\ alertLog' = alertLog \cup {x} /\ eval' = NoEval
      /\ UNCHANGED <<ended, queued, sent, restarts>>
  BY <1>0 DEF SaveAlert
<1>2. /\ trouble'.latest = trouble.latest /\ alert'.loaded /\ alert'.alerted
      /\ alert'.last = ConsecutiveFailures(eval.e)
      /\ alert'.successes = eval.state.successes
  BY SaveAlertShape
<1>3. eval.state.successes = 0
  BY <1>1 DEF Reasons
<1>4. x.kind = "alert" /\ x.e = eval.e
  BY <1>0
<1>5. /\ Kept' /\ eval'.at = "idle"
      /\ eval.e = trouble.latest /\ eval.e \in 1..Len(ended) /\ eval.e \in Nat
      /\ \A y \in alertLog : y.e < eval.e /\ y.e \in 1..Len(ended)
      /\ x \in alertLog' /\ Newest(x)'
  BY <1>1, <1>2, <1>4, StoredOrder
<1>6. Held' = alert'
  BY <1>2, HeldAfter
<1>7. PICK e : e = eval.e
  OBVIOUS
<1>8. e \in 1..Len(ended) /\ e \in 0..Len(ended) /\ x.e = e
      /\ ConsecutiveFailures(e) \in Nat
  BY <1>4, <1>5, <1>7, FailuresCounted
<1>9. \A y \in alertLog' : y = x \/ y \in alertLog
  BY <1>1
<1>10. /\ ConsecutiveFailures(e)' = ConsecutiveFailures(e)
       /\ ConsecutiveFailures(x.e)' = ConsecutiveFailures(e)
       /\ \A y \in alertLog : /\ ConsecutiveFailures(y.e)' = ConsecutiveFailures(y.e)
                              /\ Together(y.e, e)' <=> Together(y.e, e)
  BY <1>1, <1>5, <1>8, SameEvents
<1>11. \A y \in alertLog' : y.kind = "alert" /\ Together(y.e, e)' =>
         ConsecutiveFailures(y.e)' <= ConsecutiveFailures(e)
  <2> TAKE y \in alertLog'
  <2> HAVE y.kind = "alert" /\ Together(y.e, e)'
  <2>1. CASE y = x
    BY <1>8, <1>10, <2>1
  <2>2. CASE y \in alertLog
    <3>1. Together(y.e, e) /\ y.e \in 1..Len(ended) /\ y.e <= e
      BY <1>5, <1>7, <1>10, <2>2
    <3>2. Forward
      BY DEF Shape
    <3> QED
      BY <1>8, <1>10, <2>2, <3>1, <3>2, CountGrows
  <2> QED
    BY <1>9, <2>1, <2>2
<1>12. Follows'
  <2>1. SUFFICES
               /\ Held'.alerted => \E a \in alertLog' : Newest(a)' /\ a.kind = "alert"
               /\ ~Held'.alerted => Held'.last = 0 /\ Held'.successes = 0
               /\ Held'.last # 0 => \E a \in alertLog' :
                    Newest(a)' /\ a.kind = "alert" /\ Held'.last = ConsecutiveFailures(a.e)'
               /\ Held'.successes # 0 => \E a \in alertLog' :
                    Newest(a)' /\ \E s \in Streak(trouble.latest)' : a.e < s
               /\ \A y \in alertLog' :
                    y.kind = "alert" /\ Together(y.e, trouble.latest)' =>
                      ConsecutiveFailures(y.e)' <= Held'.last
    BY DEF Follows
  <2>2. \A a : Together(a, trouble.latest)' <=> Together(a, e)'
    BY <1>2, <1>5, <1>7, NextLatest
  <2> QED
    BY <1>2, <1>3, <1>4, <1>5, <1>6, <1>7, <1>10, <1>11, <2>2
<1>13. Reasons'
  BY <1>5 DEF Reasons
<1>14. Told'
  BY <1>1, ToldBefore
<1> QED
  BY <1>5, <1>12, <1>13, <1>14

\* After a recovery no alert of the streak is left to compare with.
LEMMA SaveRecoveryOrder ==
  ASSUME AlertTypeOK, Shape, Mutex, Orderly, Kept, Follows, Reasons, Told, SaveRecovery(TRUE)
  PROVE  Kept' /\ Follows' /\ Reasons' /\ Told'
<1>0. PICK x : x = [kind |-> "recovery", e |-> eval.e, count |-> 0]
  OBVIOUS
<1>1. /\ eval.at = "saveRecovery" /\ alertLog' = alertLog \cup {x} /\ eval' = NoEval
      /\ UNCHANGED <<ended, queued, sent, restarts>>
  BY <1>0 DEF SaveRecovery
<1>2. /\ trouble'.latest = trouble.latest
      /\ alert' = [loaded |-> TRUE, alerted |-> FALSE, last |-> 0, successes |-> 0]
  BY SaveRecoveryShape
<1>3. x.kind = "recovery" /\ x.e = eval.e
  BY <1>0
<1>4. /\ Kept' /\ eval'.at = "idle"
      /\ eval.e = trouble.latest /\ eval.e \in 1..Len(ended) /\ eval.e \in Nat
      /\ \A y \in alertLog : y.e < eval.e /\ y.e \in 1..Len(ended)
  BY <1>1, <1>2, <1>3, StoredOrder
<1>5. Held' = alert'
  BY <1>2, HeldAfter
<1>6. PICK e : e = eval.e
  OBVIOUS
<1>7. PICK a \in alertLog : Newest(a) /\ a.kind = "alert" /\ \E s \in Streak(e) : a.e < s
  BY <1>1, <1>6 DEF Reasons
<1>8. PICK s \in Streak(e) : a.e < s
  BY <1>7
<1>9. \A y \in alertLog' : y.kind = "alert" => ~Together(y.e, e)'
  <2> TAKE y \in alertLog'
  <2> HAVE y.kind = "alert"
  <2>1. y \in alertLog
    BY <1>1, <1>3
  <2>2. y.e <= a.e /\ a.e \in Nat /\ y.e \in 1..Len(ended) /\ e \in 1..Len(ended)
    BY <1>4, <1>6, <1>7, <2>1, Stored DEF Newest
  <2>3. s \notin Streak(y.e)
    BY <1>8, <2>2 DEF Streak
  <2>4. ~Together(y.e, e)
    BY <1>8, <2>3 DEF Together
  <2> QED
    BY <1>1, <2>2, <2>4, SameEvents
<1>10. Follows'
  <2>1. SUFFICES
               /\ Held'.alerted => \E b \in alertLog' : Newest(b)' /\ b.kind = "alert"
               /\ ~Held'.alerted => Held'.last = 0 /\ Held'.successes = 0
               /\ Held'.last # 0 => \E b \in alertLog' :
                    Newest(b)' /\ b.kind = "alert" /\ Held'.last = ConsecutiveFailures(b.e)'
               /\ Held'.successes # 0 => \E b \in alertLog' :
                    Newest(b)' /\ \E t \in Streak(trouble.latest)' : b.e < t
               /\ \A y \in alertLog' :
                    y.kind = "alert" /\ Together(y.e, trouble.latest)' =>
                      ConsecutiveFailures(y.e)' <= Held'.last
    BY DEF Follows
  <2>2. \A b : Together(b, trouble.latest)' <=> Together(b, e)'
    BY <1>2, <1>4, <1>6, NextLatest
  <2> QED
    BY <1>2, <1>5, <1>9, <2>2
<1>11. Reasons'
  BY <1>4 DEF Reasons
<1>12. Told'
  BY <1>1, ToldBefore
<1> QED
  BY <1>4, <1>10, <1>11, <1>12

\* What a restart reads back is the state that was held, without successes.
LEMMA StartAgainOrder ==
  ASSUME AlertTypeOK, Shape, Mutex, Kept, Follows, Reasons, Told, StartAgain, eval = NoEval
  PROVE  /\ Kept' /\ Follows' /\ Reasons' /\ Told'
         /\ Held'.last # 0 => \E a \in alertLog : Newest(a) /\ Held'.last = ConsecutiveFailures(a.e)
         /\ Held'.successes = 0
<1>1. /\ eval' = NoEval /\ eval.at = "idle" /\ eval'.at = "idle"
      /\ UNCHANGED <<ended, alertLog, sent>>
  BY DEF StartAgain, NoEval
<1>2. trouble'.latest = trouble.latest /\ Held' = Reloaded(alertLog)
  BY StartAgainShape
<1> DEFINE r == Reloaded(alertLog)
<1>3. /\ r \in States /\ r.successes = 0
      /\ alertLog = {} => r.last = 0 /\ ~r.alerted
      /\ alertLog # {} => \E a \in alertLog :
           /\ \A y \in alertLog : y.e <= a.e
           /\ r.alerted <=> a.kind = "alert"
           /\ r.last = IF a.kind = "alert" THEN a.count ELSE 0
  BY Reloads
<1> HIDE DEF r
<1>4. alertLog # {} => \E a \in alertLog :
         /\ Newest(a)
         /\ r.alerted <=> a.kind = "alert"
         /\ r.last = IF a.kind = "alert" THEN ConsecutiveFailures(a.e) ELSE 0
  BY <1>3 DEF Newest, Shape
<1>5. PICK l : l = trouble.latest
  OBVIOUS
<1>6. \A x \in alertLog : x.e \in 1..Len(ended) /\ x.e <= l /\ l \in 1..Len(ended)
  BY <1>5, Stored, Fields DEF Kept
<1>7. ASSUME NEW x \in alertLog, x.kind = "alert", Together(x.e, l)
      PROVE  ConsecutiveFailures(x.e) <= r.last
  <2>1. PICK a \in alertLog : /\ Newest(a)
                              /\ r.alerted <=> a.kind = "alert"
                              /\ r.last = IF a.kind = "alert" THEN ConsecutiveFailures(a.e) ELSE 0
    BY <1>4
  <2>2. x.e <= a.e /\ a.e <= l /\ l \in 1..Len(ended) /\ x.e \in 1..Len(ended)
        /\ a.e \in 1..Len(ended) /\ Forward
    BY <1>6, <2>1 DEF Newest, Shape
  <2>3. CASE a.kind = "alert"
    <3>1. Together(x.e, a.e)
      <4>1. \A b \in 1..Len(ended) : x.e <= b /\ b <= l => Together(x.e, b)
        BY <1>7, <2>2, Between
      <4> QED
        BY <2>2, <4>1
    <3> QED
      BY <2>1, <2>2, <2>3, <3>1, CountGrows
  <2>4. CASE a.kind # "alert"
    <3>1. ~Held.alerted
      <4>1. ASSUME NEW b \in alertLog, Newest(b) PROVE b = a
        <5>1. a.e = b.e
          BY <2>1, <4>1, Stored DEF Newest
        <5> QED
          BY <5>1 DEF Kept
      <4> QED
        BY <1>1, <2>4, <4>1 DEF Follows
    <3>2. Held.last = 0
      BY <1>1, <3>1 DEF Follows
    <3> QED
      BY <1>1, <1>5, <1>7, <2>1, <2>4, <3>2 DEF Follows
  <2> QED
    BY <2>3, <2>4
<1>8. \A a : Newest(a)' <=> Newest(a)
  BY <1>1 DEF Newest
<1>9. \A x \in alertLog : /\ ConsecutiveFailures(x.e)' = ConsecutiveFailures(x.e)
                          /\ Together(x.e, l)' <=> Together(x.e, l)
  BY <1>1, <1>6, SameEvents
<1>10. r.last # 0 => \E a \in alertLog :
         Newest(a) /\ a.kind = "alert" /\ r.last = ConsecutiveFailures(a.e)
  BY <1>3, <1>4
<1>11. /\ r.alerted => \E a \in alertLog : Newest(a) /\ a.kind = "alert"
       /\ ~r.alerted => r.last = 0
  BY <1>3, <1>4
<1>12. Follows'
  <2>1. SUFFICES
               /\ Held'.alerted => \E a \in alertLog' : Newest(a)' /\ a.kind = "alert"
               /\ ~Held'.alerted => Held'.last = 0 /\ Held'.successes = 0
               /\ Held'.last # 0 => \E a \in alertLog' :
                    Newest(a)' /\ a.kind = "alert" /\ Held'.last = ConsecutiveFailures(a.e)'
               /\ Held'.successes # 0 => \E a \in alertLog' :
                    Newest(a)' /\ \E s \in Streak(trouble.latest)' : a.e < s
               /\ \A x \in alertLog' :
                    x.kind = "alert" /\ Together(x.e, trouble.latest)' =>
                      ConsecutiveFailures(x.e)' <= Held'.last
    BY DEF Follows
  <2>2. \A a : Together(a, trouble.latest)' <=> Together(a, l)'
    BY <1>2, <1>5, NextLatest
  <2>3. Held' = r
    BY <1>2 DEF r
  <2> QED
    BY <1>1, <1>3, <1>7, <1>8, <1>9, <1>10, <1>11, <2>2, <2>3
<1>13. Kept'
  BY <1>1, <1>2 DEF Kept
<1>14. Reasons'
  BY <1>1 DEF Reasons
<1>15. Told'
  BY <1>1, ToldBefore
<1>16. Held' = r
  BY <1>2 DEF r
<1> QED
  BY <1>3, <1>10, <1>12, <1>13, <1>14, <1>15, <1>16
-----------------------------------------------------------------------------
(***************************************************************************)
(* Evaluations none of which is left out.                                  *)
(***************************************************************************)
\* A restart came after so many requests.
LEMMA RestartAt ==
  ASSUME AlertTypeOK, NEW r \in ToSet(restarts)
  PROVE  r \in 0..Len(ended)
<1> DEFINE S == 0..Len(ended)
<1>1. restarts \in Seq(S)
  BY DEF AlertTypeOK
<1> HIDE DEF S
<1>2. PICK i \in 1..Len(restarts) : restarts[i] = r
  BY <1>1 DEF ToSet
<1>3. r \in S
  BY <1>1, <1>2, OfSequence
<1> QED
  BY <1>3 DEF S

\* A streak that is unbroken was so before.
LEMMA WasUnbroken ==
  ASSUME AlertTypeOK, Longer, \A r \in ToSet(restarts) : r \in ToSet(restarts'),
         NEW e \in 1..Len(ended), Unbroken(e)'
  PROVE  Unbroken(e)
<1>1. Len(ended) \in Nat /\ 1..e \subseteq 1..Len(ended)
      /\ \A k \in 1..e : k \in 0..Len(ended)
  BY Ended
<1>2. \A k \in 0..Len(ended) : Streak(k)' = Streak(k)
  BY StableStreak
<1>3. \A k \in 1..Len(ended) : ended'[k] = ended[k]
  BY DEF Longer
<1>4. e \in 1..e /\ Streak(e)' = Streak(e)
  BY <1>1, <1>2
<1>5. ASSUME NEW k \in 1..e, Streak(k) = Streak(e) PROVE ended[k].from = ended[e].from
  <2>1. Streak(k)' = Streak(e)'
    BY <1>1, <1>2, <1>4, <1>5
  <2>2. ended'[k].from = ended'[e].from
    BY <2>1 DEF Unbroken
  <2> QED
    BY <1>1, <1>3, <2>2
<1>6. ASSUME NEW r \in ToSet(restarts), r < e, r > 0 PROVE Streak(r) # Streak(e)
  <2>1. r \in 0..Len(ended)
    BY RestartAt
  <2>2. Streak(r)' # Streak(e)'
    BY <1>6 DEF Unbroken
  <2> QED
    BY <1>2, <1>4, <2>1, <2>2
<1> QED
  BY <1>5, <1>6 DEF Unbroken

\* What was heard is still heard, and what has a message has one.
LEMMA StillHeard ==
  ASSUME AlertTypeOK, Longer, \A r \in ToSet(restarts) : r \in ToSet(restarts'), Heard,
         NEW e \in 1..trouble.latest,
         ended'[e].result = "failure" /\ Trigger(e, 0)' /\ Unbroken(e)'
  PROVE  \/ \E i \in 1..Len(sent) : sent[i] = [kind |-> "alert", e |-> e]
         \/ eval.at = "alert" /\ eval.e = e
<1>1. e \in 1..Len(ended)
  BY Fields
<1>2. ended[e].result = "failure" /\ Trigger(e, 0) /\ Unbroken(e)
  BY <1>1, Stable, WasUnbroken
<1> QED
  BY <1>2 DEF Heard

\* Recoveries stay what they were.
LEMMA StillRecovered ==
  ASSUME AlertTypeOK, Longer, Recoveries, sent' = sent
  PROVE  \A i \in 1..Len(sent') : sent'[i].kind = "recovery" => RecoveredBy(sent[i].e)'
<1> TAKE i \in 1..Len(sent')
<1> HAVE sent'[i].kind = "recovery"
<1>1. PICK e : e = sent[i].e
  OBVIOUS
<1>2. e \in 1..Len(ended) /\ e \in 0..Len(ended)
  <2>1. i \in 1..Len(sent)
    OBVIOUS
  <2>2. sent[i].e \in 1..Len(ended)
    BY <2>1, Message
  <2> QED
    BY <1>1, <2>2
<1>3. RecoveredBy(e)
  BY <1>1 DEF Recoveries
<1>4. RecoveredBy(e)'
  BY <1>2, <1>3, StableStreak
<1> QED
  BY <1>1, <1>4 DEF RecoveredBy, Streak

\* A request that ends is queued behind the others.
LEMMA RequestEndsReported ==
  ASSUME AlertTypeOK, Shape, Mutex, InOrder, Reported, NEW result \in Results,
         NEW from \in 1..MaxRequests, NEW slot \in BOOLEAN, RequestEnds(result, from, slot),
         Complete'
  PROVE  NoneLeft' /\ Heard' /\ Recoveries' /\ CountIsFresh'
<1>1. /\ queued' = (IF slot THEN queued \cup {Len(ended) + 1} ELSE queued)
      /\ trouble' = [trouble EXCEPT !.missed = @ \/ ~slot]
      /\ UNCHANGED <<eval, alert, alertLog, sent, restarts>>
  BY DEF RequestEnds
<1>2. trouble' = [latest |-> trouble.latest, disorder |-> trouble.disorder,
                  missed |-> trouble.missed \/ ~slot, fault |-> trouble.fault]
  BY <1>1, Fields
<1>3. Longer /\ Len(ended') = Len(ended) + 1
  BY OneMore
<1>4. slot /\ Complete /\ trouble'.latest = trouble.latest
  BY <1>1, <1>2 DEF Complete, Orderly
<1>5. NoneLeft /\ Heard /\ Recoveries /\ CountIsFresh
  BY <1>4 DEF Reported
<1>6. Len(ended) \in Nat /\ trouble.latest \in 0..Len(ended)
  BY Fields
<1>7. NoneLeft'
  <2>1. (trouble.latest + 1 .. Len(ended)) \cup {Len(ended) + 1}
          = trouble.latest + 1 .. Len(ended) + 1
    BY <1>6
  <2> QED
    BY <1>1, <1>3, <1>4, <1>5, <2>1 DEF NoneLeft
<1>8. Heard'
  BY <1>1, <1>3, <1>4, <1>5, StillHeard DEF Heard
<1>9. PICK l : l = trouble.latest
  OBVIOUS
<1>10. /\ Streak(trouble.latest)' = Streak(l) /\ Run(trouble.latest)' = Run(l)
       /\ Streak(l) = Streak(trouble.latest) /\ Run(l) = Run(trouble.latest)
  BY <1>3, <1>4, <1>6, <1>9, StableStreak, NextLatest
<1>11. Held' = Held /\ \A a : Newest(a)' <=> Newest(a)
  BY <1>1 DEF Held, Newest, Reloaded
<1>12. Recoveries'
  <2>1. \A i \in 1..Len(sent') : sent'[i].kind = "recovery" => RecoveredBy(sent[i].e)'
    BY <1>1, <1>3, <1>5, StillRecovered
  <2>2. eval'.at = "recovery" => RecoveredBy(eval.e)'
    <3> HAVE eval'.at = "recovery"
    <3>1. PICK e : e = eval.e
      OBVIOUS
    <3>2. eval.at = "recovery" /\ e \in 0..Len(ended)
      BY <1>1, <3>1, Fields
    <3>3. RecoveredBy(e)
      BY <1>5, <3>1, <3>2 DEF Recoveries
    <3>4. RecoveredBy(e)'
      BY <1>3, <3>2, <3>3, StableStreak
    <3> QED
      BY <1>1, <3>1, <3>4, NextEval
  <2>3. eval'.at = "idle" => Held'.successes <= Cardinality(Run(trouble.latest)')
    BY <1>1, <1>5, <1>10, <1>11 DEF Recoveries
  <2> QED
    BY <2>1, <2>2, <2>3 DEF Recoveries
<1>13. CountIsFresh'
  <2>1. \A x \in alertLog : ConsecutiveFailures(x.e)' = ConsecutiveFailures(x.e)
    <3> TAKE x \in alertLog
    <3>1. x.e \in 1..Len(ended)
      BY Stored
    <3>2. Longer
      BY <1>3
    <3> QED
      BY <3>1, <3>2, Stable
  <2> QED
    BY <1>1, <1>5, <1>10, <1>11, <2>1 DEF CountIsFresh
<1> QED
  BY <1>7, <1>8, <1>12, <1>13

\* The successes that are counted are successes in a row.
LEMMA SuccessesInARow ==
  ASSUME AlertTypeOK, NEW e \in 1..Len(ended), NEW f, NEW left,
         f.successes \in Nat, f.successes <= Cardinality(Run(e - 1)),
         left = Successes(e, f), ~f.alerted => left = 0
  PROVE  left <= Cardinality(Run(e))
<1>1. /\ Cardinality(Run(e)) \in Nat /\ Cardinality(Run(e - 1)) \in Nat
      /\ ended[e].result = "success" => Cardinality(Run(e)) = Cardinality(Run(e - 1)) + 1
      /\ ended[e].result = "stopped" => Cardinality(Run(e)) = Cardinality(Run(e - 1))
  BY RunGrows
<1>2. ended[e].result \in {"success", "failure", "stopped"}
  BY Ended DEF Results
<1>3. CASE left = 0
  BY <1>1, <1>3
<1>4. CASE left # 0 /\ ended[e].result = "success"
  BY <1>1, <1>4 DEF Successes
<1>5. CASE left # 0 /\ ended[e].result = "stopped"
  BY <1>1, <1>5 DEF Successes
<1>6. CASE left # 0 /\ ended[e].result = "failure"
  BY <1>6 DEF Successes
<1> QED
  BY <1>2, <1>3, <1>4, <1>5, <1>6

\* A boundary is over the count that is held, unless its streak was broken.
LEMMA BoundaryIsNew ==
  ASSUME AlertTypeOK, Shape, Mutex, Kept, NoneLeft, CountIsFresh, eval.at = "idle",
         NEW e \in 1..Len(ended), e = trouble.latest + 1, ended[e].result = "failure",
         Unbroken(e), Held.last # 0
  PROVE  ConsecutiveFailures(e) > Held.last
<1>1. /\ e \in Nat /\ trouble.latest \in Nat /\ Forward /\ trouble.latest < e
      /\ 1..e \subseteq 1..Len(ended)
  BY Fields, Ended DEF Shape
<1>2. PICK a \in alertLog :
        /\ Newest(a) /\ Held.last = ConsecutiveFailures(a.e)
        /\ \/ \A s \in Streak(trouble.latest) : s <= a.e
           \/ \E r \in ToSet(restarts) : a.e <= r /\ \A s \in Streak(trouble.latest) : s <= r
  BY DEF CountIsFresh
<1>3. a.e \in 1..Len(ended) /\ a.e \in Nat /\ a.e >= 1 /\ a.e <= trouble.latest
  BY Stored DEF Kept
<1>4. Streak(e) = Streak(trouble.latest)
  BY <1>1 DEF Streak
<1>5. \A s \in Streak(trouble.latest) : s <= a.e
  <2>1. ASSUME NEW r \in ToSet(restarts), a.e <= r, \A s \in Streak(trouble.latest) : s <= r
        PROVE  FALSE
    <3>1. r \in Nat /\ r <= trouble.latest /\ r < e /\ r > 0
      BY <1>1, <1>3, <2>1, RestartAt, Fields DEF NoneLeft
    <3>2. Streak(r) = Streak(e)
      BY <1>1, <1>4, <2>1, <3>1 DEF Streak
    <3> QED
      BY <3>1, <3>2 DEF Unbroken
  <2> QED
    BY <1>2, <2>1
<1>6. Streak(a.e) = Streak(e)
  BY <1>1, <1>3, <1>4, <1>5 DEF Streak
<1>7. ended[a.e].from = ended[e].from
  <2>1. a.e \in 1..e
    BY <1>1, <1>3
  <2> QED
    BY <1>6, <2>1 DEF Unbroken
<1>8. Together(a.e, e)
  BY <1>6, <1>7 DEF Together
<1>9. ConsecutiveFailures(a.e) < ConsecutiveFailures(e)
  BY <1>1, <1>3, <1>8, CountGrows
<1>10. ConsecutiveFailures(a.e) \in Nat /\ ConsecutiveFailures(e) \in Nat
  BY <1>3, FailuresCounted
<1> QED
  BY <1>2, <1>9, <1>10

\* Each event is evaluated in turn.
LEMMA EvaluateReported ==
  ASSUME AlertTypeOK, Shape, Mutex, InOrder, Reported, NEW e \in queued, NEW kinds,
         Evaluate(e, kinds), Complete'
  PROVE  NoneLeft' /\ Heard' /\ Recoveries' /\ CountIsFresh'
<1> DEFINE f == Found(e, kinds)
           g == Left(e, kinds)
<1>1. /\ Orderly /\ e > trouble.latest /\ trouble'.latest = e /\ LoadState(kinds) = Held
      /\ trouble'.missed = trouble.missed
  BY EvaluateShape DEF Complete
<1>2. /\ e \in 1..Len(ended) /\ eval = NoEval /\ queued' = queued \ {e}
      /\ f.alerted = Held.alerted /\ f.successes = Held.successes
      /\ f.last = IF ConsecutiveFailures(e) < Held.last THEN 0 ELSE Held.last
      /\ g.loaded /\ g.alerted = f.alerted /\ g.last = f.last
      /\ g.successes = Successes(e, f)
      /\ \/ /\ Trigger(e, f.last)
            /\ eval' = [at |-> "alert", e |-> e, state |-> g] /\ alert' = Held
         \/ /\ Recovers(e, kinds)
            /\ eval' = [at |-> "recovery", e |-> e, state |-> g] /\ alert' = Held
         \/ /\ ~Trigger(e, f.last) /\ ~Recovers(e, kinds)
            /\ eval' = eval /\ alert' = g
  BY <1>1, EvaluateCases
<1>3. Recovers(e, kinds) => g.successes >= AlertSuccesses
  BY DEF Recovers
<1>4. UNCHANGED <<ended, alertLog, sent, restarts>> /\ eval.at = "idle"
  BY <1>2 DEF Evaluate, NoEval
<1> HIDE DEF f, g
<1>5. /\ Len(ended) \in Nat /\ trouble.latest \in 0..Len(ended)
      /\ Held.last \in Nat /\ Held.successes \in Nat
      /\ ConsecutiveFailures(e) \in Nat
  BY <1>2, Fields, HeldState, StateFields, FailuresCounted
<1>6. Complete
  <2>1. \A q \in queued' : q > e
    BY <1>1 DEF Complete
  <2>2. \A q \in queued : q > trouble.latest
    <3> TAKE q \in queued
    <3>1. CASE q = e
      BY <1>1, <3>1
    <3>2. CASE q # e
      <4>1. q > e /\ q \in Nat /\ e \in Nat
        BY <1>2, <2>1, <3>2 DEF AlertTypeOK
      <4> QED
        BY <1>1, <1>5, <4>1
    <3> QED
      BY <3>1, <3>2
  <2> QED
    BY <1>1, <2>2 DEF Complete
<1>7. Kept /\ Follows /\ NoneLeft /\ Heard /\ Recoveries /\ CountIsFresh
  BY <1>1, <1>6 DEF InOrder, Reported
<1>8. e = trouble.latest + 1
  <2>1. trouble.latest + 1 \in queued
    BY <1>1, <1>2, <1>5, <1>7 DEF NoneLeft
  <2>2. ASSUME trouble.latest + 1 # e PROVE FALSE
    <3>1. trouble.latest + 1 \in queued'
      BY <1>2, <2>1, <2>2
    <3>2. trouble.latest + 1 > e
      BY <1>1, <3>1 DEF Complete
    <3> QED
      BY <1>1, <1>2, <1>5, <3>2
  <2> QED
    BY <2>2
<1>9. NoneLeft'
  <2>1. queued' = e + 1 .. Len(ended)
    BY <1>2, <1>5, <1>7, <1>8 DEF NoneLeft
  <2>2. \A r \in ToSet(restarts) : r <= e
    <3> TAKE r \in ToSet(restarts)
    <3>1. r <= trouble.latest /\ r \in 0..Len(ended)
      BY <1>7, RestartAt DEF NoneLeft
    <3> QED
      BY <1>5, <1>8, <3>1
  <2> QED
    BY <1>1, <1>4, <2>1, <2>2 DEF NoneLeft
<1>10. /\ f.last \in Nat
       /\ ~f.alerted => f.last = 0 /\ g.successes = 0
  BY <1>1, <1>2, <1>4, <1>7, FoundState
<1>11. Longer
  BY <1>4, SameEvents
<1>12. Heard'
  <2>1. ASSUME NEW d \in 1..e, ended'[d].result = "failure" /\ Trigger(d, 0)' /\ Unbroken(d)'
        PROVE  \/ \E i \in 1..Len(sent) : sent[i] = [kind |-> "alert", e |-> d]
               \/ eval'.at = "alert" /\ eval'.e = d
    <3>1. CASE d # e
      <4>1. d \in 1..trouble.latest
        BY <1>5, <1>8, <3>1
      <4>2. \/ \E i \in 1..Len(sent) : sent[i] = [kind |-> "alert", e |-> d]
            \/ eval.at = "alert" /\ eval.e = d
        BY <1>4, <1>7, <1>11, <2>1, <4>1, StillHeard
      <4> QED
        BY <1>4, <4>2
    <3>2. CASE d = e
      <4>1. ended[e].result = "failure" /\ Trigger(e, 0) /\ Unbroken(e)
        BY <1>2, <1>4, <1>11, <2>1, <3>2, Stable, WasUnbroken
      <4>2. ConsecutiveFailures(e) > f.last
        <5>1. CASE f.last = 0
          BY <4>1, <5>1 DEF Trigger
        <5>2. CASE f.last # 0
          <6>1. f.last = Held.last /\ Held.last # 0
            BY <1>2, <5>2
          <6> QED
            BY <1>2, <1>4, <1>7, <1>8, <4>1, <6>1, BoundaryIsNew
        <5> QED
          BY <5>1, <5>2
      <4>3. Trigger(e, f.last)
        BY <4>1, <4>2 DEF Trigger
      <4>4. eval'.at = "alert" /\ eval'.e = e
        BY <1>2, <4>3 DEF Recovers, f
      <4> QED
        BY <3>2, <4>4
    <3> QED
      BY <3>1, <3>2
  <2> QED
    BY <1>1, <1>4, <2>1 DEF Heard
<1>13. g.successes <= Cardinality(Run(e))
  <2>1. f.successes \in Nat /\ f.successes <= Cardinality(Run(e - 1))
    <3>1. e - 1 = trouble.latest
      BY <1>5, <1>8
    <3> QED
      BY <1>2, <1>4, <1>5, <1>7, <3>1 DEF Recoveries
  <2> QED
    BY <1>2, <1>10, <2>1, SuccessesInARow
<1>14. /\ Run(e)' = Run(e) /\ Streak(e)' = Streak(e) /\ (RecoveredBy(e)' <=> RecoveredBy(e))
       /\ Run(trouble.latest)' = Run(e)' /\ Streak(trouble.latest)' = Streak(e)'
  <2>1. e \in 0..Len(ended)
    BY <1>2
  <2> QED
    BY <1>1, <1>2, <1>4, <2>1, SameEvents, NextLatest
<1>15. eval'.at = "idle" => Held' = g
  <2> HAVE eval'.at = "idle"
  <2>1. alert' = g
    BY <1>2
  <2> QED
    BY <1>2, <2>1, HeldAfter
<1>16. Recoveries'
  <2>1. \A i \in 1..Len(sent') : sent'[i].kind = "recovery" => RecoveredBy(sent[i].e)'
    BY <1>4, <1>7, <1>11, StillRecovered
  <2>2. eval'.at = "recovery" => RecoveredBy(eval.e)'
    <3> HAVE eval'.at = "recovery"
    <3>1. Recovers(e, kinds) /\ eval'.e = e
      BY <1>2, <1>4
    <3>2. Cardinality(Run(e)) >= AlertSuccesses
      <4>1. Cardinality(Run(e)) \in Nat /\ g.successes \in Int
        <5>1. g.successes \in Nat
          BY <1>2, <1>5 DEF Successes
        <5> QED
          BY <1>2, <5>1, RunGrows
      <4> QED
        BY <1>3, <1>13, <3>1, <4>1, AlertAssumption
    <3>3. RecoveredBy(e)
      BY <3>2 DEF RecoveredBy, Run
    <3> QED
      BY <1>14, <3>1, <3>3, NextEval
  <2>3. eval'.at = "idle" => Held'.successes <= Cardinality(Run(trouble.latest)')
    BY <1>13, <1>14, <1>15
  <2> QED
    BY <2>1, <2>2, <2>3 DEF Recoveries
<1>17. CountIsFresh'
  <2>1. SUFFICES ASSUME eval'.at = "idle", Held'.last # 0
        PROVE  \E a \in alertLog' :
                 /\ Newest(a)' /\ Held'.last = ConsecutiveFailures(a.e)'
                 /\ \/ \A s \in Streak(trouble.latest)' : s <= a.e
                    \/ \E r \in ToSet(restarts') :
                         a.e <= r /\ \A s \in Streak(trouble.latest)' : s <= r
    BY DEF CountIsFresh
  <2>2. Held'.last = f.last /\ f.last # 0
    BY <1>2, <1>15, <2>1
  <2>3. f.last = Held.last /\ Held.last # 0 /\ ConsecutiveFailures(e) # 0
    BY <1>2, <1>5, <2>2
  <2>4. PICK a \in alertLog :
          /\ Newest(a) /\ Held.last = ConsecutiveFailures(a.e)
          /\ \/ \A s \in Streak(trouble.latest) : s <= a.e
             \/ \E r \in ToSet(restarts) :
                  a.e <= r /\ \A s \in Streak(trouble.latest) : s <= r
    BY <1>4, <1>7, <2>3 DEF CountIsFresh
  <2>5. Streak(e) = Streak(trouble.latest)
    <3>1. ended[e].result # "success"
      BY <1>2, <2>3, FailuresCounted
    <3> QED
      BY <1>5, <1>8, <3>1 DEF Streak
  <2>6. ConsecutiveFailures(a.e)' = ConsecutiveFailures(a.e)
    <3>1. a.e \in 1..Len(ended)
      BY Stored
    <3> QED
      BY <1>11, <3>1, Stable
  <2>7. Newest(a)'
    BY <1>4, <2>4 DEF Newest
  <2> QED
    BY <1>4, <1>14, <2>2, <2>3, <2>4, <2>5, <2>6, <2>7
<1> QED
  BY <1>9, <1>12, <1>16, <1>17

\* A message that is sent is heard, and a recovery has its successes.
LEMMA SendReported ==
  ASSUME AlertTypeOK, Shape, Mutex, InOrder, Reported, Send, Complete'
  PROVE  NoneLeft' /\ Heard' /\ Recoveries' /\ CountIsFresh'
<1> DEFINE n == Len(sent)
<1>1. /\ (Orderly' <=> Orderly)
      /\ eval' = [at |-> IF eval.at = "alert" THEN "saveAlert" ELSE "saveRecovery",
                  e |-> eval.e, state |-> eval.state]
      /\ Len(sent') = n + 1 /\ n \in Nat
      /\ \A i \in 1..n : sent'[i] = sent[i]
      /\ sent'[n + 1] = [kind |-> eval.at, e |-> eval.e]
  BY SendShape
<1>2. /\ eval.at \in {"alert", "recovery"}
      /\ UNCHANGED <<ended, queued, alert, alertLog, restarts, trouble>>
  BY DEF Send
<1>3. Complete
  BY <1>1, <1>2 DEF Complete
<1>4. NoneLeft /\ Heard /\ Recoveries /\ Longer
  BY <1>2, <1>3, SameEvents DEF Reported
<1>5. eval'.at # "idle" /\ eval'.at # "recovery"
  BY <1>1
<1>6. NoneLeft'
  BY <1>2, <1>4 DEF NoneLeft
<1>7. n + 1 \in 1..n + 1 /\ \A i \in 1..n : i \in 1..n + 1
  BY <1>1
<1>8. Heard'
  <2>1. ASSUME NEW e \in 1..trouble.latest,
               ended'[e].result = "failure" /\ Trigger(e, 0)' /\ Unbroken(e)'
        PROVE  \E i \in 1..n + 1 : sent'[i] = [kind |-> "alert", e |-> e]
    <3>1. \/ \E i \in 1..n : sent[i] = [kind |-> "alert", e |-> e]
          \/ eval.at = "alert" /\ eval.e = e
      BY <1>2, <1>4, <2>1, StillHeard
    <3>2. CASE \E i \in 1..n : sent[i] = [kind |-> "alert", e |-> e]
      BY <1>1, <1>7, <3>2
    <3>3. CASE eval.at = "alert" /\ eval.e = e
      BY <1>1, <1>7, <3>3
    <3> QED
      BY <3>1, <3>2, <3>3
  <2> QED
    BY <1>1, <1>2, <2>1 DEF Heard
<1>9. Recoveries'
  <2>1. ASSUME NEW i \in 1..n + 1, sent'[i].kind = "recovery" PROVE RecoveredBy(sent[i].e)'
    <3>1. PICK e : e = sent'[i].e
      OBVIOUS
    <3>2. RecoveredBy(e) /\ e \in 0..Len(ended)
      <4>1. CASE i \in 1..n
        <5>1. sent[i].e \in 1..Len(ended) /\ sent'[i] = sent[i]
          BY <1>1, <4>1, Message
        <5>2. RecoveredBy(sent[i].e)
          BY <1>4, <2>1, <4>1, <5>1 DEF Recoveries
        <5> QED
          BY <3>1, <5>1, <5>2
      <4>2. CASE i = n + 1
        <5>1. eval.at = "recovery" /\ e = eval.e
          BY <1>1, <2>1, <3>1, <4>2
        <5> QED
          BY <1>4, <5>1, Fields DEF Recoveries
      <4> QED
        BY <1>1, <4>1, <4>2
    <3>3. RecoveredBy(e)'
      BY <1>4, <3>2, StableStreak
    <3> QED
      BY <3>1, <3>3 DEF RecoveredBy, Streak
  <2> QED
    BY <1>1, <1>5, <2>1 DEF Recoveries
<1>10. CountIsFresh'
  BY <1>5 DEF CountIsFresh
<1> QED
  BY <1>6, <1>8, <1>9, <1>10

\* Storing what was sent is of no concern to what is heard.
LEMMA SaveReported ==
  ASSUME AlertTypeOK, Longer, Mutex, NoneLeft, Heard, Recoveries,
         eval.at \in {"saveAlert", "saveRecovery"}, Held'.successes = 0, eval' = NoEval,
         trouble'.latest = trouble.latest, UNCHANGED <<ended, queued, sent, restarts>>
  PROVE  NoneLeft' /\ Heard' /\ Recoveries'
<1>1. eval'.at = "idle"
  BY DEF NoEval
<1>2. NoneLeft'
  BY DEF NoneLeft
<1>3. Heard'
  BY StillHeard DEF Heard
<1>4. Recoveries'
  <2>1. \A i \in 1..Len(sent') : sent'[i].kind = "recovery" => RecoveredBy(sent[i].e)'
    BY StillRecovered
  <2>2. Cardinality(Run(trouble.latest)') >= 0
    <3>1. PICK l : l = trouble.latest
      OBVIOUS
    <3>2. Run(l)' = Run(l) /\ Run(trouble.latest)' = Run(l)' /\ l \in 0..Len(ended) /\ l \in Nat
      BY <3>1, StableStreak, NextLatest, Fields
    <3>3. Run(l) \in SUBSET (1..l)
      BY DEF Run, Streak
    <3> QED
      BY <3>2, <3>3, NumbersAreFinite
  <2> QED
    BY <1>1, <2>1, <2>2 DEF Recoveries
<1> QED
  BY <1>2, <1>3, <1>4

\* After an alert is stored its count is that of the streak.
LEMMA SaveAlertReported ==
  ASSUME AlertTypeOK, Shape, Mutex, InOrder, Reported, NEW ok \in BOOLEAN, SaveAlert(ok),
         Complete'
  PROVE  NoneLeft' /\ Heard' /\ Recoveries' /\ CountIsFresh'
<1>1. /\ Orderly' => Orderly /\ ok
      /\ trouble'.latest = trouble.latest /\ trouble'.missed = trouble.missed
      /\ alert'.loaded /\ alert'.alerted
      /\ alert'.last = ConsecutiveFailures(eval.e)
      /\ alert'.successes = eval.state.successes
  BY SaveAlertShape
<1>2. PICK x : x = [kind |-> "alert", e |-> eval.e, count |-> ConsecutiveFailures(eval.e)]
  OBVIOUS
<1>3. Orderly /\ ok
  BY <1>1 DEF Complete
<1>4. /\ eval.at = "saveAlert" /\ alertLog' = alertLog \cup {x} /\ eval' = NoEval
      /\ UNCHANGED <<ended, queued, sent, restarts>>
  BY <1>2, <1>3 DEF SaveAlert
<1>5. Complete
  BY <1>1, <1>3, <1>4 DEF Complete
<1>6. Kept /\ Reasons /\ NoneLeft /\ Heard /\ Recoveries
  BY <1>3, <1>5 DEF InOrder, Reported
<1>7. Held' = alert' /\ alert'.successes = 0
  BY <1>1, <1>4, <1>6, HeldAfter DEF Reasons
<1>8. NoneLeft' /\ Heard' /\ Recoveries'
  BY <1>1, <1>4, <1>6, <1>7, SaveReported, SameEvents
<1>9. x.kind = "alert" /\ x.e = eval.e
  BY <1>2
<1>10. /\ eval.e = trouble.latest /\ eval.e \in 1..Len(ended)
       /\ x \in alertLog' /\ Newest(x)'
  BY <1>1, <1>3, <1>4, <1>6, <1>9, StoredOrder
<1>11. CountIsFresh'
  <2>1. ConsecutiveFailures(x.e)' = ConsecutiveFailures(x.e)
    BY <1>4, <1>9, <1>10, SameEvents
  <2>2. \A s \in Streak(trouble.latest)' : s <= x.e
    <3>1. x.e = trouble'.latest
      BY <1>1, <1>9, <1>10
    <3>2. Streak(trouble.latest)' = Streak(x.e)'
      BY <3>1, NextLatest
    <3> QED
      BY <3>2 DEF Streak
  <2>3. Held'.last = ConsecutiveFailures(x.e)
    BY <1>1, <1>7, <1>9
  <2> QED
    BY <1>10, <2>1, <2>2, <2>3 DEF CountIsFresh
<1> QED
  BY <1>8, <1>11

\* After a recovery there is no count.
LEMMA SaveRecoveryReported ==
  ASSUME AlertTypeOK, Shape, Mutex, InOrder, Reported, NEW ok \in BOOLEAN, SaveRecovery(ok),
         Complete'
  PROVE  NoneLeft' /\ Heard' /\ Recoveries' /\ CountIsFresh'
<1>1. /\ Orderly' => Orderly /\ ok
      /\ trouble'.latest = trouble.latest /\ trouble'.missed = trouble.missed
      /\ alert' = [loaded |-> TRUE, alerted |-> FALSE, last |-> 0, successes |-> 0]
  BY SaveRecoveryShape
<1>2. /\ eval.at = "saveRecovery" /\ eval' = NoEval
      /\ UNCHANGED <<ended, queued, sent, restarts>>
  BY DEF SaveRecovery
<1>3. Orderly /\ Complete
  BY <1>1, <1>2 DEF Complete
<1>4. NoneLeft /\ Heard /\ Recoveries
  BY <1>3 DEF Reported
<1>5. Held' = alert'
  BY <1>1, HeldAfter
<1>6. NoneLeft' /\ Heard' /\ Recoveries'
  BY <1>1, <1>2, <1>4, <1>5, SaveReported, SameEvents
<1>7. CountIsFresh'
  BY <1>1, <1>5 DEF CountIsFresh
<1> QED
  BY <1>6, <1>7

\* A restart with nothing left loses no evaluation.
LEMMA StartAgainReported ==
  ASSUME AlertTypeOK, Shape, Mutex, InOrder, Reported, StartAgain, Complete'
  PROVE  NoneLeft' /\ Heard' /\ Recoveries' /\ CountIsFresh'
<1>1. /\ Orderly' => Orderly /\ eval = NoEval
      /\ trouble'.latest = trouble.latest
      /\ ~trouble'.missed => ~trouble.missed /\ queued = {}
      /\ \A r : r \in ToSet(restarts') <=> r \in ToSet(restarts) \/ r = Len(ended)
  BY StartAgainShape
<1>2. Orderly /\ eval = NoEval /\ queued = {} /\ Complete
  BY <1>1 DEF Complete
<1>3. /\ queued' = {} /\ eval' = NoEval /\ eval.at = "idle" /\ eval'.at = "idle"
      /\ UNCHANGED <<ended, alertLog, sent>>
  BY <1>2 DEF StartAgain, NoEval
<1>4. Kept /\ Follows /\ Reasons /\ Told /\ NoneLeft /\ Heard /\ Recoveries
  BY <1>2 DEF InOrder, Reported
<1>5. /\ Held'.last # 0 => \E a \in alertLog : Newest(a) /\ Held'.last = ConsecutiveFailures(a.e)
      /\ Held'.successes = 0
  BY <1>2, <1>4, StartAgainOrder
<1>6. PICK l : l = trouble.latest
  OBVIOUS
<1>7. Len(ended) \in Nat /\ l \in 0..Len(ended) /\ l = Len(ended)
  <2>1. Len(ended) \in Nat /\ l \in 0..Len(ended)
    BY <1>6, Fields
  <2>2. l + 1 .. Len(ended) = {}
    BY <1>2, <1>4, <1>6 DEF NoneLeft
  <2> QED
    BY <2>1, <2>2
<1>8. NoneLeft'
  <2>1. l + 1 .. Len(ended) = {}
    BY <1>7
  <2>2. \A r \in ToSet(restarts') : r <= l
    BY <1>1, <1>4, <1>6, <1>7 DEF NoneLeft
  <2> QED
    BY <1>1, <1>3, <1>6, <2>1, <2>2 DEF NoneLeft
<1>9. Longer
  BY <1>3, SameEvents
<1>10. Heard'
  <2>1. \A r \in ToSet(restarts) : r \in ToSet(restarts')
    BY <1>1
  <2>2. ASSUME NEW e \in 1..trouble.latest,
               ended'[e].result = "failure" /\ Trigger(e, 0)' /\ Unbroken(e)'
        PROVE  \E i \in 1..Len(sent) : sent[i] = [kind |-> "alert", e |-> e]
    BY <1>3, <1>4, <1>9, <2>1, <2>2, StillHeard
  <2> QED
    BY <1>1, <1>3, <2>2 DEF Heard
<1>11. Recoveries'
  <2>1. \A i \in 1..Len(sent') : sent'[i].kind = "recovery" => RecoveredBy(sent[i].e)'
    BY <1>3, <1>4, <1>9, StillRecovered
  <2>2. Cardinality(Run(trouble.latest)') >= 0
    <3>1. Run(l)' = Run(l) /\ Run(trouble.latest)' = Run(l)'
      BY <1>1, <1>6, <1>7, <1>9, StableStreak, NextLatest
    <3>2. Run(l) \in SUBSET (1..l) /\ l \in Nat
      BY <1>7 DEF Run, Streak
    <3> QED
      BY <3>1, <3>2, NumbersAreFinite
  <2> QED
    BY <1>3, <1>5, <2>1, <2>2 DEF Recoveries
<1>12. CountIsFresh'
  <2>1. SUFFICES ASSUME Held'.last # 0
        PROVE  \E a \in alertLog' :
                 /\ Newest(a)' /\ Held'.last = ConsecutiveFailures(a.e)'
                 /\ \E r \in ToSet(restarts') :
                      a.e <= r /\ \A s \in Streak(trouble.latest)' : s <= r
    BY DEF CountIsFresh
  <2>2. PICK a \in alertLog : Newest(a) /\ Held'.last = ConsecutiveFailures(a.e)
    BY <1>5, <2>1
  <2>3. a.e \in 1..Len(ended) /\ a.e <= Len(ended)
    BY Stored
  <2>4. ConsecutiveFailures(a.e)' = ConsecutiveFailures(a.e) /\ Newest(a)'
    BY <1>3, <2>2, <2>3, SameEvents DEF Newest
  <2>5. \A s \in Streak(trouble.latest)' : s <= l
    <3>1. Streak(trouble.latest)' = Streak(l)'
      BY <1>1, <1>6, NextLatest
    <3> QED
      BY <3>1 DEF Streak
  <2>6. l \in ToSet(restarts')
    BY <1>1, <1>7
  <2> QED
    BY <1>3, <1>7, <2>2, <2>3, <2>4, <2>5, <2>6
<1> QED
  BY <1>8, <1>10, <1>11, <1>12
-----------------------------------------------------------------------------
\* Nothing is known of any request at the beginning.
LEMMA AlertsStart == AlertInit => AlertIInv
<1> SUFFICES ASSUME AlertInit PROVE AlertIInv
  OBVIOUS
<1>1. /\ ended = <<>> /\ queued = {} /\ eval = NoEval /\ alert = Unloaded /\ alertLog = {}
      /\ sent = <<>> /\ restarts = <<>>
      /\ trouble = [latest |-> 0, disorder |-> FALSE, missed |-> FALSE, fault |-> FALSE]
  BY DEF AlertInit
<1>2. /\ MaxRequests \in Nat /\ MaxUpsets \in Nat /\ Unloaded \in States
      /\ Len(ended) = 0 /\ Len(sent) = 0 /\ Len(restarts) = 0 /\ eval.at = "idle"
      /\ eval.state = Unloaded
  BY <1>1, AlertAssumption DEF States, Unloaded, NoEval
<1>3. AlertTypeOK
  <2>1. /\ ended \in Seq([result : Results, from : 1..MaxRequests])
        /\ sent \in Seq([kind : Kinds, e : 1..Len(ended)])
        /\ restarts \in Seq(0..Len(ended))
    BY <1>1
  <2>2. eval \in [at : {"idle", "alert", "recovery", "saveAlert", "saveRecovery"},
                  e : 0..Len(ended), state : States]
    BY <1>1, <1>2 DEF NoEval
  <2>3. trouble \in [latest : 0..Len(ended), disorder : BOOLEAN, missed : BOOLEAN,
                     fault : BOOLEAN]
    BY <1>1, <1>2
  <2> QED
    BY <1>1, <1>2, <2>1, <2>2, <2>3 DEF AlertTypeOK
<1>4. Shape
  BY <1>1, <1>2, FS_EmptySet DEF Shape, Forward, Unloaded
<1>5. Mutex
  BY <1>1, <1>2 DEF Mutex
<1>6. Held.last = 0 /\ Held.successes = 0 /\ ~Held.alerted
  <2>1. Held = Reloaded(alertLog)
    BY <1>1 DEF Held, Unloaded
  <2> QED
    BY <1>1, <1>3, <2>1, Reloads
<1>7. InOrder
  <2>1. Kept
    BY <1>1, <1>2 DEF Kept
  <2>2. Follows
    BY <1>1, <1>6 DEF Follows
  <2>3. Reasons /\ Told
    BY <1>1, <1>2 DEF Reasons, Told, AnnouncedOnce, Alternating
  <2> QED
    BY <2>1, <2>2, <2>3 DEF InOrder
<1>8. Reported
  <2>1. NoneLeft
    BY <1>1, <1>2 DEF NoneLeft, ToSet
  <2>2. Heard
    BY <1>1 DEF Heard
  <2>3. Cardinality(Run(trouble.latest)) = 0
    <3>1. Run(trouble.latest) = {}
      BY <1>1 DEF Run, Streak
    <3> QED
      BY <3>1, FS_EmptySet
  <2>4. Recoveries /\ CountIsFresh
    BY <1>2, <1>6, <2>3 DEF Recoveries, CountIsFresh
  <2> QED
    BY <2>1, <2>2, <2>4 DEF Reported
<1> QED
  BY <1>3, <1>4, <1>5, <1>7, <1>8 DEF AlertIInv

\* Every step of the alerts keeps what is known of them.
LEMMA AlertsKept == AlertIInv /\ [AlertNext]_alertVars => AlertIInv'
<1> SUFFICES ASSUME AlertIInv, [AlertNext]_alertVars PROVE AlertIInv'
  OBVIOUS
<1> USE DEF AlertIInv
<1>1. ASSUME NEW result \in Results, NEW from \in 1..MaxRequests, NEW slot \in BOOLEAN,
             RequestEnds(result, from, slot)
      PROVE  AlertIInv'
  <2>1. AlertTypeOK' /\ Shape' /\ Mutex'
    BY <1>1, RequestEndsShape
  <2>2. /\ Longer /\ UNCHANGED <<eval, alert, alertLog, sent>>
        /\ trouble'.latest = trouble.latest /\ (Orderly' <=> Orderly)
    <3>1. trouble' = [trouble EXCEPT !.missed = @ \/ ~slot]
      BY <1>1 DEF RequestEnds
    <3>2. trouble' = [latest |-> trouble.latest, disorder |-> trouble.disorder,
                      missed |-> trouble.missed \/ ~slot, fault |-> trouble.fault]
      BY <3>1, Fields
    <3> QED
      BY <1>1, <3>2, OneMore DEF RequestEnds, Orderly
  <2>3. InOrder'
    BY <2>2, RequestEndsOrder DEF InOrder
  <2>4. Reported'
    BY <1>1, RequestEndsReported DEF Reported
  <2> QED
    BY <2>1, <2>3, <2>4
<1>2. ASSUME NEW e \in queued, NEW kinds \in SUBSET Kinds, Evaluate(e, kinds)
      PROVE  AlertIInv'
  <2>1. /\ AlertTypeOK' /\ Shape' /\ Mutex'
        /\ Orderly' => /\ Orderly /\ e > trouble.latest /\ trouble'.latest = e
                       /\ LoadState(kinds) = Held
    BY <1>2, EvaluateShape
  <2>2. InOrder'
    BY <1>2, <2>1, EvaluateOrder DEF InOrder
  <2>3. Reported'
    BY <1>2, EvaluateReported DEF Reported
  <2> QED
    BY <2>1, <2>2, <2>3
<1>3. CASE Send
  <2>1. AlertTypeOK' /\ Shape' /\ Mutex' /\ (Orderly' <=> Orderly)
    BY <1>3, SendShape
  <2>2. InOrder'
    BY <1>3, <2>1, SendOrder DEF InOrder
  <2>3. Reported'
    BY <1>3, SendReported DEF Reported
  <2> QED
    BY <2>1, <2>2, <2>3
<1>4. ASSUME NEW ok \in BOOLEAN, SaveAlert(ok) PROVE AlertIInv'
  <2>1. AlertTypeOK' /\ Shape' /\ Mutex' /\ (Orderly' => Orderly /\ ok)
    BY <1>4, SaveAlertShape
  <2>2. InOrder'
    <3>1. SUFFICES ASSUME Orderly' PROVE Kept' /\ Follows' /\ Reasons' /\ Told'
      BY DEF InOrder
    <3>2. Orderly /\ SaveAlert(TRUE)
      <4>1. ok = TRUE
        BY <1>4, <2>1, <3>1
      <4> QED
        BY <1>4, <2>1, <3>1, <4>1
    <3> QED
      BY <3>2, SaveAlertOrder DEF InOrder
  <2>3. Reported'
    BY <1>4, SaveAlertReported DEF Reported
  <2> QED
    BY <2>1, <2>2, <2>3
<1>5. ASSUME NEW ok \in BOOLEAN, SaveRecovery(ok) PROVE AlertIInv'
  <2>1. AlertTypeOK' /\ Shape' /\ Mutex' /\ (Orderly' => Orderly /\ ok)
    BY <1>5, SaveRecoveryShape
  <2>2. InOrder'
    <3>1. SUFFICES ASSUME Orderly' PROVE Kept' /\ Follows' /\ Reasons' /\ Told'
      BY DEF InOrder
    <3>2. Orderly /\ SaveRecovery(TRUE)
      <4>1. ok = TRUE
        BY <1>5, <2>1, <3>1
      <4> QED
        BY <1>5, <2>1, <3>1, <4>1
    <3> QED
      BY <3>2, SaveRecoveryOrder DEF InOrder
  <2>3. Reported'
    BY <1>5, SaveRecoveryReported DEF Reported
  <2> QED
    BY <2>1, <2>2, <2>3
<1>6. CASE StartAgain
  <2>1. /\ AlertTypeOK' /\ Shape' /\ Mutex'
        /\ Orderly' => Orderly /\ eval = NoEval
    BY <1>6, StartAgainShape
  <2>2. InOrder'
    BY <1>6, <2>1, StartAgainOrder DEF InOrder
  <2>3. Reported'
    BY <1>6, StartAgainReported DEF Reported
  <2> QED
    BY <2>1, <2>2, <2>3
<1>7. CASE UNCHANGED alertVars
  <2> USE <1>7 DEF alertVars
  <2>1. AlertTypeOK' /\ Mutex' /\ (Orderly' <=> Orderly) /\ (Complete' <=> Complete)
    BY DEF AlertTypeOK, Mutex, Orderly, Complete
  <2>2. Longer /\ trouble'.latest = trouble.latest
    BY SameEvents
  <2>3. Shape'
    BY SameShape DEF AlertTypeOK, Shape
  <2>4. InOrder'
    BY <2>1, <2>2, RequestEndsOrder DEF InOrder
  <2>5. Reported'
    <3>1. SUFFICES ASSUME Complete PROVE NoneLeft' /\ Heard' /\ Recoveries' /\ CountIsFresh'
      BY <2>1 DEF Reported
    <3>2. NoneLeft /\ Heard /\ Recoveries /\ CountIsFresh
      BY <3>1 DEF Reported
    <3>3. NoneLeft'
      BY <3>2 DEF NoneLeft
    <3>4. Heard'
      BY <2>2, <3>2, StillHeard DEF Heard
    <3>5. /\ Run(trouble.latest)' = Run(trouble.latest)
          /\ Streak(trouble.latest)' = Streak(trouble.latest)
          /\ RecoveredBy(eval.e)' <=> RecoveredBy(eval.e)
          /\ Held' = Held /\ \A a : Newest(a)' <=> Newest(a)
      BY DEF Run, Streak, RecoveredBy, Held, Reloaded, Newest
    <3>6. Recoveries'
      BY <2>2, <3>2, <3>5, StillRecovered DEF Recoveries
    <3>7. \A x \in alertLog : ConsecutiveFailures(x.e)' = ConsecutiveFailures(x.e)
      BY Stored, SameEvents
    <3>8. CountIsFresh'
      BY <3>2, <3>5, <3>7 DEF CountIsFresh
    <3> QED
      BY <3>3, <3>4, <3>6, <3>8
  <2> QED
    BY <2>1, <2>3, <2>4, <2>5
<1> QED
  BY <1>1, <1>2, <1>3, <1>4, <1>5, <1>6, <1>7 DEF AlertNext

\* Alerts keep the types of their variables; counts of successes stay in bounds
\* because each evaluation takes its event from the queue.
THEOREM AlertTypes == AlertSpec => []AlertTypeOK
<1>1. AlertSpec => []AlertIInv
  BY AlertsStart, AlertsKept, PTL DEF AlertSpec
<1>2. AlertIInv => AlertTypeOK
  BY DEF AlertIInv
<1> QED
  BY <1>1, <1>2, PTL

\* However evaluations, restarts and moves of the window follow on each other:
\* when evaluations come in order and no call fails, a boundary of a streak is
\* announced once and recoveries alternate with alerts; and when none is left
\* out, every boundary of an unbroken streak has been announced, and recoveries
\* follow the successes that were asked for (jobs/reliability_alerts.go).
THEOREM AlertsCorrect == AlertSpec => []AlertsFollowTheStreak
<1>1. AlertSpec => []AlertIInv
  BY AlertsStart, AlertsKept, PTL DEF AlertSpec
<1>2. AlertIInv => AlertsFollowTheStreak
  <2> SUFFICES ASSUME AlertIInv, Orderly
      PROVE  /\ AnnouncedOnce
             /\ Alternating
             /\ (~trouble.missed /\ queued = {} /\ eval = NoEval) =>
                  /\ Announced
                  /\ \A m \in ToSet(sent) : m.kind = "recovery" => RecoveredBy(m.e)
    BY DEF AlertsFollowTheStreak
  <2>1. AnnouncedOnce /\ Alternating
    BY DEF AlertIInv, InOrder, Told
  <2>2. ASSUME ~trouble.missed, queued = {}, eval = NoEval
        PROVE  /\ Announced
               /\ \A m \in ToSet(sent) : m.kind = "recovery" => RecoveredBy(m.e)
    <3>1. NoneLeft /\ Heard /\ Recoveries
      <4>1. Complete
        BY <2>2 DEF Complete
      <4> QED
        BY <4>1 DEF AlertIInv, Reported
    <3>2. trouble.latest = Len(ended)
      <4>1. PICK l : l = trouble.latest
        OBVIOUS
      <4>2. l \in 0..Len(ended) /\ Len(ended) \in Nat
        BY <4>1, Fields DEF AlertIInv
      <4>3. l + 1 .. Len(ended) = {}
        BY <2>2, <3>1, <4>1 DEF NoneLeft
      <4>4. l = Len(ended)
        BY <4>2, <4>3
      <4> QED
        BY <4>1, <4>4
    <3>3. Announced
      BY <2>2, <3>1, <3>2 DEF Heard, Announced, NoEval
    <3>4. ASSUME NEW m \in ToSet(sent), m.kind = "recovery" PROVE RecoveredBy(m.e)
      <4>1. DOMAIN sent = 1..Len(sent)
        BY DEF AlertIInv, AlertTypeOK
      <4>2. PICK i \in 1..Len(sent) : sent[i] = m
        BY <4>1 DEF ToSet
      <4> QED
        BY <3>1, <3>4, <4>2 DEF Recoveries
    <3> QED
      BY <3>3, <3>4
  <2> QED
    BY <2>1, <2>2
<1> QED
  BY <1>1, <1>2, PTL
=============================================================================
