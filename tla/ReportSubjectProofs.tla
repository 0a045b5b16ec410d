-------------------------- MODULE ReportSubjectProofs --------------------------
(***************************************************************************)
(* Process authority cannot be manufactured, lost or handed to another work *)
(* item, for any lists, any spellings and any number of holders, copies and *)
(* expansions.                                                              *)
(*                                                                          *)
(* Who is trusted comes first, then what is in the arrays: that a round of  *)
(* the loop keeps an expansion Fresh, by induction that the whole loop      *)
(* does, and SubjectInv, which needs it of every Expand.                    *)
(***************************************************************************)
EXTENDS ReportSubject, Integers, FiniteSetTheorems, WellFoundedInduction, TLAPS

\* A ReportSubject has the fields of the struct.
Shaped(s) == s = [principal |-> s.principal, trusted |-> s.trusted, slice |-> s.slice]

(***************************************************************************)
(* No action makes a subject trusted that was not resolved as trusted here. *)
(***************************************************************************)
AuthorityInv ==
    /\ DOMAIN subject = Holders /\ DOMAIN external = Holders
    /\ \A h \in Holders : Shaped(subject[h])
    /\ \A h \in Holders : external[h] => ~subject[h].trusted

LEMMA ExpansionKeepsTrust ==
    ASSUME NEW s, Shaped(s), NEW list
    PROVE  LET expanded == WithExactProcessCapabilities(s, list).subject
           IN  Shaped(expanded) /\ expanded.trusted = s.trusted
                   /\ expanded.principal = s.principal
  <1>1. CASE ~s.trusted
    BY <1>1 DEF WithExactProcessCapabilities
  <1>2. CASE s.trusted
    <2>1. PICK slice :
              WithExactProcessCapabilities(s, list).subject = [s EXCEPT !.slice = slice]
      BY <1>2 DEF WithExactProcessCapabilities
    <2>2. [s EXCEPT !.slice = slice] =
              [principal |-> s.principal, trusted |-> s.trusted, slice |-> slice]
      BY DEF Shaped
    <2> QED BY <2>1, <2>2 DEF Shaped
  <1> QED BY <1>1, <1>2

\* to is given a subject that is trusted only if to then counts as internal.
LEMMA Given ==
    ASSUME AuthorityInv, NEW to \in Holders, NEW s, Shaped(s), NEW fromOutside,
           subject' = [subject EXCEPT ![to] = s],
           external' = [external EXCEPT ![to] = fromOutside],
           fromOutside => ~s.trusted
    PROVE  AuthorityInv'
  <1>1. \A h \in Holders : subject'[h] = IF h = to THEN s ELSE subject[h]
    BY DEF AuthorityInv
  <1>2. \A h \in Holders : external'[h] = IF h = to THEN fromOutside ELSE external[h]
    BY DEF AuthorityInv
  <1>3. DOMAIN subject' = Holders /\ DOMAIN external' = Holders
    BY DEF AuthorityInv
  <1> QED BY <1>1, <1>2, <1>3, Zenon DEF AuthorityInv, Shaped

LEMMA AuthorityStep == AuthorityInv /\ [Next]_vars => AuthorityInv'
  <1> SUFFICES ASSUME AuthorityInv, [Next]_vars PROVE AuthorityInv'
    OBVIOUS
  <1>1. ASSUME NEW h \in Holders, NEW principal \in Principals, NEW trusted \in BOOLEAN,
               NEW list \in ProcessLists, NEW spare \in 0..1,
               Resolve(h, principal, trusted, list, spare)
        PROVE  AuthorityInv'
    <2> DEFINE s == [principal |-> principal, trusted |-> trusted,
                     slice |-> [array |-> Len(arrays) + 1, len |-> Len(list)]]
    <2>1. Shaped(s) /\ s.trusted = trusted
      BY DEF Shaped
    <2>2. subject' = [subject EXCEPT ![h] = s] /\ external' = [external EXCEPT ![h] = ~trusted]
      BY <1>1 DEF Resolve
    <2> HIDE DEF s
    <2> QED BY <2>1, <2>2, Given
  <1>2. ASSUME NEW from \in Holders, NEW to \in Holders, Assign(from, to)
        PROVE  AuthorityInv'
    BY <1>2, Given DEF Assign, AuthorityInv
  <1>3. ASSUME NEW from \in Holders, NEW to \in Holders, Send(from, to)
        PROVE  AuthorityInv'
    <2> DEFINE s == Decoded(subject[from])
    <2>1. s = [principal |-> subject[from].principal, trusted |-> FALSE, slice |-> Nil]
      BY DEF Decoded
    <2>2. Shaped(s) /\ ~s.trusted
      BY <2>1 DEF Shaped
    <2>3. subject' = [subject EXCEPT ![to] = s] /\ external' = [external EXCEPT ![to] = TRUE]
      BY <1>3 DEF Send
    <2> HIDE DEF s
    <2> QED BY <2>2, <2>3, Given
  <1>4. ASSUME NEW from \in Holders, NEW to \in Holders, NEW list \in DerivedLists,
               Expand(from, to, list)
        PROVE  AuthorityInv'
    <2> DEFINE s == WithExactProcessCapabilities(subject[from], list).subject
    <2>1. subject' = [subject EXCEPT ![to] = s]
          /\ external' = [external EXCEPT ![to] = external[from]]
      BY <1>4 DEF Expand
    <2>2. Shaped(s) /\ s.trusted = subject[from].trusted
      BY ExpansionKeepsTrust DEF AuthorityInv
    <2> HIDE DEF s
    <2> QED BY <2>1, <2>2, Given DEF AuthorityInv
  <1>5. CASE UNCHANGED vars
    BY <1>5 DEF vars, AuthorityInv, Shaped
  <1> QED BY <1>1, <1>2, <1>3, <1>4, <1>5 DEF Next

(***************************************************************************)
(* A subject that came from outside this process, or crossed JSON, has the  *)
(* permissions of its principal and no others (report_authority.go 60-64,   *)
(* 78-92, 106-128).                                                         *)
(***************************************************************************)
THEOREM AuthorityNotManufactured == Spec => []ExternalSubjectsGainNothing
  <1>1. Init => AuthorityInv
    <2>1. Shaped(Zero) /\ ~Zero.trusted
      BY DEF Shaped, Zero
    <2> QED BY <2>1, Zenon DEF Init, AuthorityInv
  <1>2. AuthorityInv => ExternalSubjectsGainNothing
    BY DEF AuthorityInv, ExternalSubjectsGainNothing, HasPermission
  <1> QED BY <1>1, <1>2, AuthorityStep, PTL DEF Spec

-----------------------------------------------------------------------------
(***************************************************************************)
(* Slices: a view of a heap, and what a list of a process may repeat.       *)
(***************************************************************************)
Heaps == Seq(Seq(Entries))

View(heap, slice) ==
    /\ slice.array \in 0..Len(heap)
    /\ slice.len \in 0..Capacity(heap, slice)

DistinctAfter(list, n) ==
    \A i, k \in DOMAIN list : i < k /\ Trim[list[i]] = Trim[list[k]] => k <= n

\* heap still holds every array of the state.
Keeps(heap) ==
    /\ heap \in Heaps /\ Len(heap) >= Len(arrays)
    /\ \A i \in 1..Len(arrays) : heap[i] = arrays[i]

LEMMA Written ==
    ASSUME NEW S, NEW s \in Seq(S), NEW i \in 1..Len(s), NEW e \in S
    PROVE  /\ [s EXCEPT ![i] = e] \in Seq(S)
           /\ Len([s EXCEPT ![i] = e]) = Len(s)
           /\ \A k \in 1..Len(s) : [s EXCEPT ![i] = e][k] = IF k = i THEN e ELSE s[k]
  OBVIOUS

LEMMA Repeated ==
    ASSUME NEW S, NEW e \in S, NEW n \in Nat
    PROVE  [i \in 1..n |-> e] \in Seq(S)
  OBVIOUS

LEMMA SpareIsBlank ==
    ASSUME NEW n \in Nat
    PROVE  Spare(n) \in Seq(Entries)
  <1>1. "" \in Entries
    BY Zenon, SubjectAssumption
  <1> QED BY <1>1, Repeated, Zenon DEF Spare

LEMMA SameEntries ==
    ASSUME NEW S, NEW s \in Seq(S), NEW t \in Seq(S), Len(s) = Len(t),
           \A i \in 1..Len(s) : s[i] = t[i]
    PROVE  s = t
  OBVIOUS

LEMMA ContentsAre ==
    ASSUME NEW heap \in Heaps, NEW slice, View(heap, slice)
    PROVE  /\ Contents(heap, slice) \in Seq(Entries)
           /\ Len(Contents(heap, slice)) = slice.len
           /\ DOMAIN Contents(heap, slice) = 1..slice.len
           /\ \A i \in 1..slice.len : Contents(heap, slice)[i] = heap[slice.array][i]
           /\ slice.array = 0 => slice.len = 0
  <1>1. CASE slice.array = 0
    BY <1>1 DEF View, Contents, Capacity
  <1>2. CASE slice.array # 0
    <2>1. heap[slice.array] \in Seq(Entries) /\ slice.len \in 0..Len(heap[slice.array])
      BY <1>2 DEF View, Capacity, Heaps
    <2>2. Contents(heap, slice) = SubSeq(heap[slice.array], 1, slice.len)
      BY <1>2 DEF Contents
    <2> DEFINE array == heap[slice.array]
               n == slice.len
    <2>3. array \in Seq(Entries) /\ n \in 0..Len(array)
      BY <2>1
    <2> HIDE DEF array, n
    <2>4. /\ SubSeq(array, 1, n) \in Seq(Entries) /\ Len(SubSeq(array, 1, n)) = n
          /\ DOMAIN SubSeq(array, 1, n) = 1..n
          /\ \A i \in 1..n : SubSeq(array, 1, n)[i] = array[i]
      BY <2>3
    <2> QED BY <1>2, <2>2, <2>4 DEF array, n
  <1> QED BY <1>1, <1>2

LEMMA ViewsKept ==
    ASSUME NEW heap, Keeps(heap), arrays \in Heaps, NEW slice, View(arrays, slice)
    PROVE  View(heap, slice) /\ Contents(heap, slice) = Contents(arrays, slice)
  BY DEF Keeps, Heaps, View, Capacity, Contents

(***************************************************************************)
(* What the loop of an expansion keeps: m views an array of its own, with   *)
(* the names it should have, and the arrays of the state are as they were.  *)
(***************************************************************************)
Fresh(m, n, names) ==
    /\ Keeps(m.heap) /\ View(m.heap, m.slice)
    /\ m.slice.array = 0 \/ m.slice.array > Len(arrays)
    /\ DistinctAfter(Contents(m.heap, m.slice), n)
    /\ NameSet(Contents(m.heap, m.slice)) = names

LEMMA CopyIsFresh ==
    ASSUME arrays \in Heaps, NEW slice, View(arrays, slice), NEW n,
           DistinctAfter(Contents(arrays, slice), n)
    PROVE  Fresh(CopyOf(arrays, slice), n, NameSet(Contents(arrays, slice)))
  <1> DEFINE list == Contents(arrays, slice)
  <1>1. /\ list \in Seq(Entries) /\ Len(list) = slice.len /\ DOMAIN list = 1..slice.len
        /\ slice.array = 0 => slice.len = 0
    BY ContentsAre
  <1>2. slice.len \in Nat
    BY <1>1
  <1>3. CASE slice.len = 0
    <2>1. CopyOf(arrays, slice).heap = arrays /\ CopyOf(arrays, slice).slice = Nil
      BY <1>3 DEF CopyOf
    <2>2. Contents(arrays, Nil) = <<>> /\ View(arrays, Nil)
      BY DEF Contents, Nil, View, Capacity, Heaps
    <2>3. NameSet(<<>>) = {} /\ NameSet(list) = {}
      BY <1>1, <1>3 DEF NameSet
    <2>4. DistinctAfter(<<>>, n)
      BY DEF DistinctAfter
    <2> QED BY <2>1, <2>2, <2>3, <2>4 DEF Fresh, Keeps, Heaps, Nil
  <1>4. CASE slice.len # 0
    <2> HIDE DEF list
    <2> DEFINE heap == Append(arrays, list)
               view == [array |-> Len(arrays) + 1, len |-> slice.len]
    <2>1. CopyOf(arrays, slice).heap = heap /\ CopyOf(arrays, slice).slice = view
      BY <1>4 DEF CopyOf, list
    <2>2. /\ heap \in Heaps /\ Len(heap) = Len(arrays) + 1 /\ Len(arrays) \in Nat
          /\ \A i \in 1..Len(arrays) : heap[i] = arrays[i]
          /\ heap[Len(arrays) + 1] = list
      BY <1>1 DEF Heaps
    <2>3. view.array = Len(arrays) + 1 /\ view.len = slice.len
      OBVIOUS
    <2> HIDE DEF heap, view
    <2>4. Keeps(heap) /\ View(heap, view)
      BY <1>1, <1>2, <2>2, <2>3 DEF Keeps, View, Capacity
    <2>5. Contents(heap, view) = list
      <3>1. Contents(heap, view) = SubSeq(list, 1, Len(list))
        BY <1>1, <2>2, <2>3 DEF Contents
      <3> QED BY <1>1, <3>1
    <2>6. view.array > Len(arrays)
      BY <2>2, <2>3
    <2> QED BY <2>1, <2>4, <2>5, <2>6 DEF Fresh, list
  <1> QED BY <1>3, <1>4

LEMMA AppendedIsFresh ==
    ASSUME arrays \in Heaps, NEW m, NEW n \in Nat, NEW names, Fresh(m, n, names),
           NEW name \in Entries
    PROVE  LET a == Appended(m, name)
           IN  /\ Keeps(a.heap) /\ View(a.heap, a.slice) /\ a.slice.array > Len(arrays)
               /\ Contents(a.heap, a.slice) = Append(Contents(m.heap, m.slice), name)
  <1> DEFINE list == Contents(m.heap, m.slice)
             at == m.slice.array
             len == m.slice.len
             a == Appended(m, name)
             grown == Grown(m, name)
  <1>1. m.heap \in Heaps /\ View(m.heap, m.slice) /\ (at = 0 \/ at > Len(arrays))
    BY DEF Fresh, Keeps
  <1>2. /\ list \in Seq(Entries) /\ Len(list) = len /\ DOMAIN list = 1..len
        /\ \A i \in 1..len : list[i] = m.heap[at][i]
        /\ at = 0 => len = 0
    BY <1>1, ContentsAre
  <1>3. at \in 0..Len(m.heap) /\ len \in Nat /\ Len(m.heap) \in Nat /\ Len(arrays) \in Nat
    BY <1>1, <1>2 DEF View, Heaps
  <1>4. /\ grown \in Seq(Entries) /\ Len(grown) >= len + 1
        /\ \A i \in 1..(len + 1) : grown[i] = Append(list, name)[i]
    <2> DEFINE spare == IF len = 0 THEN 0 ELSE len - 1
               s == Append(list, name)
               e == Spare(spare)
    <2>1. s \in Seq(Entries) /\ Len(s) = len + 1
      BY <1>2, <1>3
    <2>2. spare \in Nat
      BY <1>3
    <2>3. e \in Seq(Entries)
      BY <2>2, SpareIsBlank
    <2>4. grown = s \o e
      BY DEF Grown
    <2> HIDE DEF s, e, spare, grown, len
    <2> QED BY <1>3, <2>1, <2>3, <2>4 DEF s
  <1>5. a.slice.len = len + 1
    BY DEF Appended
  \* Wherever the call wrote, the array at a.slice now begins with the longer list.
  <1>6. /\ Keeps(a.heap) /\ a.slice.array \in 1..Len(a.heap) /\ a.slice.array > Len(arrays)
        /\ Len(a.heap[a.slice.array]) >= len + 1
        /\ \A i \in 1..(len + 1) : a.heap[a.slice.array][i] = Append(list, name)[i]
    <2>1. CASE len < Capacity(m.heap, m.slice)
      <3>1. at # 0 /\ len < Len(m.heap[at]) /\ at \in 1..Len(m.heap) /\ at > Len(arrays)
        BY <1>1, <1>3, <2>1 DEF Capacity
      <3> DEFINE array == [m.heap[at] EXCEPT ![len + 1] = name]
      <3>2. a.heap = [m.heap EXCEPT ![at] = array] /\ a.slice.array = at
        BY <2>1 DEF Appended
      <3>3. m.heap[at] \in Seq(Entries)
        BY <1>1, <3>1 DEF Heaps
      <3>4. /\ array \in Seq(Entries) /\ Len(array) = Len(m.heap[at])
            /\ array[len + 1] = name /\ \A i \in 1..len : array[i] = m.heap[at][i]
        <4> DEFINE old == m.heap[at]
        <4>1. old \in Seq(Entries) /\ len + 1 \in 1..Len(old)
          BY <1>3, <3>1, <3>3
        <4> HIDE DEF old, len
        <4> QED BY <1>3, <4>1 DEF old
      <3> HIDE DEF array
      <3>5. a.heap \in Heaps /\ Len(a.heap) = Len(m.heap) /\ a.heap[at] = array
            /\ \A i \in 1..Len(arrays) : a.heap[i] = m.heap[i]
        <4>1. /\ a.heap \in Heaps /\ Len(a.heap) = Len(m.heap)
              /\ \A k \in 1..Len(m.heap) : a.heap[k] = IF k = at THEN array ELSE m.heap[k]
          BY <1>1, <3>1, <3>2, <3>4, Written DEF Heaps
        <4> HIDE DEF at
        <4> QED BY <1>3, <3>1, <4>1
      <3>6. \A i \in 1..(len + 1) : array[i] = Append(list, name)[i]
        BY <1>2, <1>3, <3>4
      <3>7. Keeps(a.heap)
        BY <3>5 DEF Fresh, Keeps
      <3>8. Len(array) >= len + 1
        BY <1>3, <3>1, <3>3, <3>4
      <3> QED BY <3>1, <3>2, <3>5, <3>6, <3>7, <3>8
    <2>2. CASE ~(len < Capacity(m.heap, m.slice)) /\ at > Len(arrays)
      <3>1. a.heap = [m.heap EXCEPT ![at] = grown] /\ a.slice.array = at
        BY <2>2 DEF Appended
      <3> HIDE DEF grown
      <3>2. at \in 1..Len(m.heap)
        BY <1>3, <2>2
      <3>3. a.heap \in Heaps /\ Len(a.heap) = Len(m.heap) /\ a.heap[at] = grown
            /\ \A i \in 1..Len(arrays) : a.heap[i] = m.heap[i]
        <4>1. /\ a.heap \in Heaps /\ Len(a.heap) = Len(m.heap)
              /\ \A k \in 1..Len(m.heap) : a.heap[k] = IF k = at THEN grown ELSE m.heap[k]
          BY <1>1, <1>4, <3>1, <3>2, Written DEF Heaps
        <4> HIDE DEF at
        <4> QED BY <1>3, <2>2, <3>2, <4>1
      <3>4. Keeps(a.heap)
        BY <3>3 DEF Fresh, Keeps
      <3> QED BY <1>4, <2>2, <3>1, <3>2, <3>3, <3>4
    <2>3. CASE ~(len < Capacity(m.heap, m.slice)) /\ ~(at > Len(arrays))
      <3>1. a.heap = Append(m.heap, grown) /\ a.slice.array = Len(m.heap) + 1
        BY <2>3 DEF Appended
      <3> HIDE DEF grown
      <3>2. a.heap \in Heaps /\ Len(a.heap) = Len(m.heap) + 1 /\ a.heap[Len(m.heap) + 1] = grown
            /\ \A i \in 1..Len(m.heap) : a.heap[i] = m.heap[i]
        BY <1>1, <1>4, <3>1 DEF Heaps
      <3>3. Len(m.heap) >= Len(arrays) /\ \A i \in 1..Len(arrays) : m.heap[i] = arrays[i]
        BY DEF Fresh, Keeps
      <3>4. Keeps(a.heap)
        BY <1>3, <3>2, <3>3 DEF Keeps
      <3>5. Len(m.heap) + 1 \in 1..Len(a.heap) /\ Len(m.heap) + 1 > Len(arrays)
        BY ONLY <1>3, <3>2, <3>3
      <3> HIDE DEF at, len, a
      <3> QED BY <1>4, <3>1, <3>2, <3>4, <3>5
    <2> QED BY <2>1, <2>2, <2>3
  <1> HIDE DEF a, list, len, at, grown
  <1>7. a.heap \in Heaps /\ Len(a.heap) \in Nat
    BY <1>6 DEF Keeps, Heaps
  <1>8. View(a.heap, a.slice)
    BY <1>3, <1>5, <1>6, <1>7 DEF View, Capacity, Heaps
  <1>9. Contents(a.heap, a.slice) = Append(list, name)
    <2> DEFINE longer == Contents(a.heap, a.slice)
    <2>1. /\ longer \in Seq(Entries) /\ Len(longer) = len + 1
          /\ \A i \in 1..(len + 1) : longer[i] = a.heap[a.slice.array][i]
      BY <1>5, <1>7, <1>8, ContentsAre
    <2>2. Append(list, name) \in Seq(Entries) /\ Len(Append(list, name)) = len + 1
      BY <1>2
    <2> HIDE DEF longer
    <2> DEFINE t == Append(list, name)
    <2>3. t \in Seq(Entries) /\ Len(t) = Len(longer) /\ \A i \in 1..Len(longer) : longer[i] = t[i]
      BY <1>6, <2>1, <2>2
    <2> HIDE DEF t
    <2>4. longer = t
      BY ONLY <2>1, <2>3, SameEntries
    <2> QED BY <2>4 DEF longer, t
  <1> QED BY <1>6, <1>8, <1>9 DEF a, list

Skipped == Wildcards \cup {""}

LEMMA ExactIsFresh ==
    ASSUME arrays \in Heaps, NEW m, NEW n \in Nat, NEW names, Fresh(m, n, names),
           NEW entry \in Entries
    PROVE  Fresh(Exact(m, entry), n, names \cup ({Trim[entry]} \ Skipped))
  <1> DEFINE name == Trim[entry]
             list == Contents(m.heap, m.slice)
             skip == name = "" \/ name \in Wildcards \/ name \in NameSet(list)
  <1>1. name \in Entries /\ Trim[name] = name
    BY SubjectAssumption
  <1>2. NameSet(list) = names /\ DistinctAfter(list, n)
    BY DEF Fresh
  <1>3. CASE skip
    <2>1. names \cup ({name} \ Skipped) = names
      BY <1>2, <1>3 DEF Skipped
    <2>2. Exact(m, entry) = m
      BY <1>3 DEF Exact
    <2> QED BY <2>1, <2>2
  <1>4. CASE ~skip
    <2> DEFINE a == Appended(m, name)
               longer == Append(list, name)
    <2>1. Exact(m, entry) = a
      BY <1>4 DEF Exact
    <2>2. /\ Keeps(a.heap) /\ View(a.heap, a.slice) /\ a.slice.array > Len(arrays)
          /\ Contents(a.heap, a.slice) = longer
      BY <1>1, AppendedIsFresh
    <2>3. list \in Seq(Entries)
      BY ContentsAre DEF Fresh, Keeps
    <2>4. name \notin names /\ names \cup ({name} \ Skipped) = names \cup {name}
      BY <1>2, <1>4 DEF Skipped
    <2> HIDE DEF a, list, name
    <2>5. /\ Len(list) \in Nat /\ DOMAIN list = 1..Len(list)
          /\ DOMAIN longer = 1..(Len(list) + 1)
          /\ longer[Len(list) + 1] = name /\ \A i \in 1..Len(list) : longer[i] = list[i]
      BY <1>1, <2>3
    <2> HIDE DEF longer
    <2>6. NameSet(longer) = names \cup {name}
      <3>1. NameSet(longer) = {Trim[list[i]] : i \in 1..Len(list)} \cup {name}
        BY <1>1, <2>5 DEF NameSet
      <3> QED BY <1>2, <2>5, <3>1 DEF NameSet
    <2>7. DistinctAfter(longer, n)
      <3> SUFFICES ASSUME NEW i \in DOMAIN longer, NEW k \in DOMAIN longer,
                          i < k, Trim[longer[i]] = Trim[longer[k]]
                   PROVE  k <= n
        BY DEF DistinctAfter
      <3>1. i \in 1..Len(list)
        BY <2>5
      <3>2. Trim[list[i]] \in names
        BY <1>2, <2>5, <3>1 DEF NameSet
      <3>3. k # Len(list) + 1
        BY <1>1, <2>4, <2>5, <3>1, <3>2
      <3>4. k \in 1..Len(list)
        BY <2>5, <3>3
      <3> QED BY <1>2, <2>5, <3>1, <3>4 DEF DistinctAfter
    <2> QED BY <2>1, <2>2, <2>4, <2>6, <2>7 DEF Fresh, name
  <1> QED BY <1>3, <1>4

(***************************************************************************)
(* The rounds of a loop, by induction over sets: of the rounds that are not *)
(* in S, one has the fewest before it, since the strict-subset ordering of  *)
(* finite sets is well-founded.                                             *)
(***************************************************************************)
LEMMA EveryRound ==
    ASSUME NEW n \in Nat, NEW S, 0 \in S, \A i \in 0..(n - 1) : i \in S => i + 1 \in S
    PROVE  \A i \in 0..n : i \in S
  <1> DEFINE Before(i) == 0..(i - 1)
             Missed == {Before(i) : i \in (0..n) \ S}
             F == FiniteSubsetsOf(Nat)
             R == StrictSubsetOrdering(Nat)
  <1> SUFFICES ASSUME (0..n) \ S # {} PROVE FALSE
    OBVIOUS
  <1>1. Missed \subseteq F /\ Missed # {}
    <2> SUFFICES ASSUME NEW i \in 0..n PROVE Before(i) \in F
      OBVIOUS
    <2>1. IsFiniteSet(Before(i))
      BY FS_Interval
    <2> QED BY <2>1 DEF FiniteSubsetsOf
  <1>2. PICK x \in Missed : \A y \in Missed : <<y, x>> \notin R
    <2>1. IsWellFoundedOn(R, F)
      BY FS_StrictSubsetOrderingWellFounded
    <2> HIDE DEF Missed, R, F
    <2> QED BY ONLY <1>1, <2>1, WFMin
  <1>3. PICK i \in (0..n) \ S : x = Before(i)
    OBVIOUS
  <1>4. i - 1 \in (0..n) \ S /\ i \in Nat \ {0}
    OBVIOUS
  <1>5. /\ i - 1 \in Before(i) /\ i - 1 \notin Before(i - 1)
        /\ Before(i - 1) \subseteq Before(i)
    BY <1>4
  <1>6. <<Before(i - 1), Before(i)>> \in R
    BY <1>4, <1>5 DEF StrictSubsetOrdering
  <1> QED BY <1>2, <1>3, <1>4, <1>6

\* f lists the rounds of the loop.
Rounds(f, slice, list) ==
    /\ f[0] = CopyOf(arrays, slice)
    /\ \A i \in 1..Len(list) : f[i] = Exact(f[i - 1], list[i])
    /\ Expansion(slice, list) = f[Len(list)]

LEMMA ExpansionUnfolds ==
    ASSUME NEW slice, NEW list, Len(list) \in Nat
    PROVE  \E f : Rounds(f, slice, list)
  <1> DEFINE n == Len(list)
             Unfolds(f, k) ==
                 f = [i \in 0..k |-> IF i = 0 THEN CopyOf(arrays, slice)
                                     ELSE Exact(f[i - 1], list[i])]
             S == {k \in 0..n : \E f : Unfolds(f, k)}
  <1>1. 0 \in S
    <2> DEFINE g == [i \in 0..0 |-> CopyOf(arrays, slice)]
    <2>1. Unfolds(g, 0)
      OBVIOUS
    <2>2. \E h : Unfolds(h, 0)
      <3> HIDE DEF Unfolds, g
      <3> QED BY <2>1
    <2> QED BY <2>2
  <1>2. ASSUME NEW k \in 0..(n - 1), k \in S PROVE k + 1 \in S
    <2>1. PICK f : Unfolds(f, k)
      BY <1>2
    <2> DEFINE g == [i \in 0..(k + 1) |-> IF i = k + 1 THEN Exact(f[k], list[k + 1]) ELSE f[i]]
    <2>2. Unfolds(g, k + 1)
      <3> SUFFICES ASSUME NEW i \in 0..(k + 1)
                   PROVE  g[i] = IF i = 0 THEN CopyOf(arrays, slice)
                                 ELSE Exact(g[i - 1], list[i])
        OBVIOUS
      <3>1. CASE i = k + 1
        BY <3>1
      <3>2. CASE i # k + 1
        BY <2>1, <3>2
      <3> QED BY <3>1, <3>2
    <2>3. \E h : Unfolds(h, k + 1)
      <3> HIDE DEF Unfolds, g
      <3> QED BY <2>2
    <2> QED BY <2>3
  <1>3. n \in S
    <2> HIDE DEF S
    <2>1. \A i \in 0..n : i \in S
      BY <1>1, <1>2, EveryRound
    <2> QED BY <2>1
  <1>4. PICK f : Unfolds(f, n)
    BY <1>3
  <1> DEFINE g == CHOOSE h : Unfolds(h, n)
  <1>5. Unfolds(g, n)
    BY <1>4
  <1>6. Expansion(slice, list) = g[n]
    BY DEF Expansion
  <1> HIDE DEF g
  <1>7. g[0] = CopyOf(arrays, slice) /\ \A i \in 1..n : g[i] = Exact(g[i - 1], list[i])
    BY <1>5
  <1>8. Rounds(g, slice, list)
    BY <1>6, <1>7 DEF Rounds
  <1> QED BY <1>8

LEMMA ExpansionIsFresh ==
    ASSUME arrays \in Heaps, NEW slice, View(arrays, slice), NEW n \in Nat,
           DistinctAfter(Contents(arrays, slice), n), NEW list \in Seq(Entries)
    PROVE  Fresh(Expansion(slice, list), n,
                 NameSet(Contents(arrays, slice)) \cup (NameSet(list) \ Skipped))
  <1> DEFINE last == Len(list)
             before == NameSet(Contents(arrays, slice))
             Names(k) == before \cup ({Trim[list[i]] : i \in 1..k} \ Skipped)
  <1>1. last \in Nat /\ DOMAIN list = 1..last /\ \A i \in 1..last : list[i] \in Entries
    OBVIOUS
  <1> HIDE DEF last
  <1>2. PICK f : /\ f[0] = CopyOf(arrays, slice)
                 /\ \A i \in 1..last : f[i] = Exact(f[i - 1], list[i])
                 /\ Expansion(slice, list) = f[last]
    <2>1. PICK f : Rounds(f, slice, list)
      BY <1>1, ExpansionUnfolds DEF last
    <2> QED BY <2>1 DEF Rounds, last
  <1> DEFINE S == {k \in 0..last : Fresh(f[k], n, Names(k))}
  <1>3. 0 \in S
    <2>1. Names(0) = before
      OBVIOUS
    <2>2. Fresh(f[0], n, before)
      BY <1>2, CopyIsFresh
    <2> HIDE DEF before, Names
    <2> QED BY <1>1, <2>1, <2>2
  <1>4. ASSUME NEW k \in 0..(last - 1), k \in S PROVE k + 1 \in S
    <2>1. k + 1 \in 1..last /\ (k + 1) - 1 = k
      BY <1>1
    <2>2. f[k + 1] = Exact(f[k], list[k + 1])
      BY <1>2, <2>1
    <2>3. Names(k + 1) = Names(k) \cup ({Trim[list[k + 1]]} \ Skipped)
      <3>1. 1..(k + 1) = (1..k) \cup {k + 1}
        BY <2>1
      <3> QED BY <3>1
    <2> HIDE DEF Names
    <2>4. Fresh(f[k + 1], n, Names(k + 1))
      BY <1>1, <1>4, <2>1, <2>2, <2>3, ExactIsFresh
    <2> QED BY <2>1, <2>4
  <1>5. last \in S
    <2> HIDE DEF S
    <2>1. \A i \in 0..last : i \in S
      BY <1>1, <1>3, <1>4, EveryRound
    <2> QED BY <1>1, <2>1
  <1>6. Names(last) = before \cup (NameSet(list) \ Skipped)
    BY <1>1 DEF NameSet
  <1> HIDE DEF before, Names
  <1> QED BY <1>2, <1>5, <1>6 DEF before

-----------------------------------------------------------------------------
(***************************************************************************)
(* The invariant: what a holder has, in the arrays as they are.             *)
(***************************************************************************)
Held(heap, s, n, names, outside) ==
    /\ Shaped(s) /\ s.principal \in Principals \cup {Nobody} /\ s.trusted \in BOOLEAN
    /\ View(heap, s.slice)
    /\ n \in Nat /\ DistinctAfter(Contents(heap, s.slice), n)
    /\ ~outside => s.trusted /\ NameSet(Contents(heap, s.slice)) = names

SubjectInv ==
    /\ arrays \in Heaps
    /\ DOMAIN subject = Holders /\ DOMAIN given = Holders
    /\ DOMAIN derived = Holders /\ DOMAIN external = Holders
    /\ \A h \in Holders : Held(arrays, subject[h], given[h], derived[h], external[h])

\* What a step gives one holder leaves the others what they hold.
LEMMA Kept ==
    ASSUME SubjectInv, Keeps(arrays'), NEW to \in Holders,
           NEW s, NEW n, NEW names, NEW outside, Held(arrays', s, n, names, outside),
           subject' = [subject EXCEPT ![to] = s], given' = [given EXCEPT ![to] = n],
           derived' = [derived EXCEPT ![to] = names],
           external' = [external EXCEPT ![to] = outside]
    PROVE  SubjectInv'
  <1>1. /\ arrays' \in Heaps
        /\ DOMAIN subject' = Holders /\ DOMAIN given' = Holders
        /\ DOMAIN derived' = Holders /\ DOMAIN external' = Holders
    BY DEF SubjectInv, Keeps
  <1>2. ASSUME NEW h \in Holders
        PROVE  Held(arrays', subject'[h], given'[h], derived'[h], external'[h])
    <2>1. CASE h = to
      <3>1. subject'[h] = s /\ given'[h] = n /\ derived'[h] = names /\ external'[h] = outside
        BY <2>1 DEF SubjectInv
      <3> QED BY <3>1
    <2>2. CASE h # to
      <3>1. /\ subject'[h] = subject[h] /\ given'[h] = given[h]
            /\ derived'[h] = derived[h] /\ external'[h] = external[h]
        BY <2>2 DEF SubjectInv
      <3>2. Held(arrays, subject[h], given[h], derived[h], external[h])
        BY DEF SubjectInv
      <3>3. View(arrays, subject[h].slice)
        BY <3>2 DEF Held
      <3>4. /\ View(arrays', subject[h].slice)
            /\ Contents(arrays', subject[h].slice) = Contents(arrays, subject[h].slice)
        BY <3>3, ViewsKept DEF SubjectInv
      <3>5. Held(arrays', subject[h], given[h], derived[h], external[h])
        BY <3>2, <3>4 DEF Held
      <3> QED BY <3>1, <3>5
    <2> QED BY <2>1, <2>2
  <1> QED BY <1>1, <1>2 DEF SubjectInv, Held, View, Capacity, Contents

LEMMA ResolveHolds ==
    ASSUME SubjectInv, NEW h \in Holders, NEW principal \in Principals,
           NEW trusted \in BOOLEAN, NEW list \in ProcessLists, NEW spare \in 0..1,
           Resolve(h, principal, trusted, list, spare)
    PROVE  Keeps(arrays') /\ SubjectInv'
  <1> DEFINE array == list \o Spare(spare)
             slice == [array |-> Len(arrays) + 1, len |-> Len(list)]
             s == [principal |-> principal, trusted |-> trusted, slice |-> slice]
  <1>1. arrays \in Heaps /\ list \in Seq(Entries) /\ Len(list) \in Nat
    <2>1. ProcessLists \subseteq Seq(Entries)
      BY Zenon, SubjectAssumption
    <2> QED BY <2>1 DEF SubjectInv
  <1>2. array \in Seq(Entries) /\ Len(array) >= Len(list)
        /\ \A i \in 1..Len(list) : array[i] = list[i]
    <2> DEFINE e == Spare(spare)
    <2>1. e \in Seq(Entries)
      BY SpareIsBlank
    <2>2. array = list \o e
      OBVIOUS
    <2> HIDE DEF e, array
    <2> QED BY <1>1, <2>1, <2>2
  <1>3. arrays' = Append(arrays, array)
    BY DEF Resolve
  <1> HIDE DEF array
  <1>4. /\ arrays' \in Heaps /\ Len(arrays') = Len(arrays) + 1 /\ Len(arrays) \in Nat
        /\ arrays'[Len(arrays) + 1] = array
        /\ \A i \in 1..Len(arrays) : arrays'[i] = arrays[i]
    BY <1>1, <1>2, <1>3 DEF Heaps
  <1>5. Keeps(arrays')
    BY <1>4 DEF Keeps
  <1>6. View(arrays', slice)
    BY <1>1, <1>2, <1>4 DEF View, Capacity, Heaps
  <1>7. Contents(arrays', slice) = list
    <2> DEFINE c == Contents(arrays', slice)
    <2>1. /\ c \in Seq(Entries) /\ Len(c) = Len(list)
          /\ \A i \in 1..Len(list) : c[i] = arrays'[Len(arrays) + 1][i]
      BY <1>4, <1>6, ContentsAre
    <2> HIDE DEF c
    <2>2. c = list
      BY <1>1, <1>2, <1>4, <2>1, SameEntries
    <2> QED BY <2>2 DEF c
  <1>8. DistinctAfter(list, Len(list))
    BY <1>1 DEF DistinctAfter
  <1>9. Shaped(s) /\ s.principal = principal /\ s.trusted = trusted /\ s.slice = slice
    BY DEF Shaped
  <1>10. /\ subject' = [subject EXCEPT ![h] = s] /\ given' = [given EXCEPT ![h] = Len(list)]
         /\ derived' = [derived EXCEPT ![h] = NameSet(list)]
         /\ external' = [external EXCEPT ![h] = ~trusted]
    BY DEF Resolve
  <1> HIDE DEF s, slice
  <1>11. Held(arrays', s, Len(list), NameSet(list), ~trusted)
    BY <1>1, <1>6, <1>7, <1>8, <1>9 DEF Held
  <1> QED BY <1>5, <1>10, <1>11, Kept

LEMMA Stays ==
    ASSUME SubjectInv, arrays' = arrays
    PROVE  Keeps(arrays')
  BY DEF SubjectInv, Keeps, Heaps

LEMMA AssignHolds ==
    ASSUME SubjectInv, NEW from \in Holders, NEW to \in Holders, Assign(from, to)
    PROVE  Keeps(arrays') /\ SubjectInv'
  <1>1. arrays' = arrays /\ Keeps(arrays')
    BY Stays DEF Assign
  <1>2. Held(arrays', subject[from], given[from], derived[from], external[from])
    BY <1>1 DEF SubjectInv
  <1> QED BY <1>1, <1>2, Kept DEF Assign

LEMMA SendHolds ==
    ASSUME SubjectInv, NEW from \in Holders, NEW to \in Holders, Send(from, to)
    PROVE  Keeps(arrays') /\ SubjectInv'
  <1> DEFINE s == Decoded(subject[from])
  <1>1. arrays' = arrays /\ Keeps(arrays')
    BY Stays DEF Send
  <1>2. /\ Shaped(s) /\ s.principal = subject[from].principal /\ s.trusted = FALSE
        /\ s.slice = Nil
    BY DEF Shaped, Decoded
  <1>3. subject[from].principal \in Principals \cup {Nobody}
    BY DEF SubjectInv, Held
  <1>4. View(arrays', Nil) /\ Contents(arrays', Nil) = <<>>
    BY <1>1 DEF SubjectInv, View, Capacity, Contents, Nil, Heaps
  <1>5. DistinctAfter(<<>>, 0)
    BY DEF DistinctAfter
  <1>6. /\ subject' = [subject EXCEPT ![to] = s] /\ given' = [given EXCEPT ![to] = 0]
        /\ derived' = [derived EXCEPT ![to] = {}] /\ external' = [external EXCEPT ![to] = TRUE]
    BY DEF Send
  <1> HIDE DEF s
  <1>7. Held(arrays', s, 0, {}, TRUE)
    BY <1>2, <1>3, <1>4, <1>5 DEF Held
  <1> QED BY <1>1, <1>6, <1>7, Kept

LEMMA ExpandHolds ==
    ASSUME SubjectInv, NEW from \in Holders, NEW to \in Holders, NEW list \in DerivedLists,
           Expand(from, to, list)
    PROVE  Keeps(arrays') /\ SubjectInv'
  <1> DEFINE s == subject[from]
             w == WithExactProcessCapabilities(s, list)
             names == derived[from] \cup (NameSet(list) \ Skipped)
  <1>1. /\ subject' = [subject EXCEPT ![to] = w.subject] /\ arrays' = w.heap
        /\ given' = [given EXCEPT ![to] = given[from]]
        /\ derived' = [derived EXCEPT ![to] = names]
        /\ external' = [external EXCEPT ![to] = external[from]]
    BY DEF Expand, Skipped
  <1>2. arrays \in Heaps /\ Held(arrays, s, given[from], derived[from], external[from])
    BY DEF SubjectInv
  <1> HIDE DEF s, names
  <1>3. /\ Keeps(arrays')
        /\ Held(arrays', w.subject, given[from], names, external[from])
    <2>1. CASE ~s.trusted
      <3>1. w.heap = arrays /\ w.subject = s
        BY <2>1 DEF WithExactProcessCapabilities
      <3>2. arrays' = arrays /\ Keeps(arrays')
        BY <1>1, <3>1, Stays
      <3>3. Held(arrays, s, given[from], names, external[from])
        BY <1>2, <2>1 DEF Held
      <3> QED BY <3>1, <3>2, <3>3
    <2>2. CASE s.trusted
      <3> DEFINE m == Expansion(s.slice, list)
                 old == NameSet(Contents(arrays, s.slice))
      <3>1. w.heap = m.heap /\ w.subject = [s EXCEPT !.slice = m.slice]
        BY <2>2 DEF WithExactProcessCapabilities
      <3>2. Fresh(m, given[from], old \cup (NameSet(list) \ Skipped))
        <4>1. View(arrays, s.slice) /\ given[from] \in Nat
              /\ DistinctAfter(Contents(arrays, s.slice), given[from])
          BY <1>2 DEF Held
        <4>2. list \in Seq(Entries)
          BY SubjectAssumption
        <4> QED BY <1>2, <4>1, <4>2, ExpansionIsFresh
      <3> HIDE DEF m, w
      <3>3. /\ Shaped(w.subject) /\ w.subject.principal = s.principal
            /\ w.subject.trusted = s.trusted /\ w.subject.slice = m.slice
        <4>1. s = [principal |-> s.principal, trusted |-> s.trusted, slice |-> s.slice]
          BY <1>2 DEF Held, Shaped
        <4>2. w.subject = [principal |-> s.principal, trusted |-> s.trusted, slice |-> m.slice]
          BY <3>1, <4>1
        <4> QED BY <4>2 DEF Shaped
      <3>4. arrays' = m.heap
        BY <1>1, <3>1
      <3>5. ~external[from] => old \cup (NameSet(list) \ Skipped) = names
        BY <1>2 DEF Held, names
      <3> QED BY <1>2, <3>2, <3>3, <3>4, <3>5 DEF Fresh, Held
    <2> QED BY <2>1, <2>2
  <1> HIDE DEF w
  <1> QED BY <1>1, <1>3, Kept

LEMMA SubjectStep == SubjectInv /\ [Next]_vars => Keeps(arrays') /\ SubjectInv'
  <1> SUFFICES ASSUME SubjectInv, [Next]_vars PROVE Keeps(arrays') /\ SubjectInv'
    OBVIOUS
  <1>1. CASE UNCHANGED vars
    <2>1. Keeps(arrays')
      BY <1>1, Stays DEF vars
    <2>2. SubjectInv'
      BY <1>1 DEF vars, SubjectInv, Held, View, Capacity, Contents
    <2> QED BY <2>1, <2>2
  <1> QED BY <1>1, ResolveHolds, AssignHolds, SendHolds, ExpandHolds DEF Next

LEMMA SubjectStarts == Init => SubjectInv
  <1> SUFFICES ASSUME Init PROVE SubjectInv
    OBVIOUS
  <1>1. Shaped(Zero) /\ Zero.principal = Nobody /\ Zero.trusted = FALSE /\ Zero.slice = Nil
    BY DEF Shaped, Zero
  <1>2. arrays \in Heaps /\ View(arrays, Nil) /\ Contents(arrays, Nil) = <<>>
    BY DEF Init, Heaps, View, Capacity, Contents, Nil
  <1>3. DistinctAfter(<<>>, 0)
    BY DEF DistinctAfter
  <1>4. Held(arrays, Zero, 0, {}, TRUE)
    BY <1>1, <1>2, <1>3 DEF Held
  <1> QED BY <1>2, <1>4 DEF Init, SubjectInv

THEOREM SubjectInvHolds == Spec => []SubjectInv
  BY SubjectStarts, SubjectStep, PTL DEF Spec

(***************************************************************************)
(* Every subject views a prefix of an array that exists, and an expansion   *)
(* adds no name its list has already (report_authority.go 114-127).         *)
(***************************************************************************)
THEOREM SubjectsAlwaysTyped == Spec => []TypeOK
  <1>1. SubjectInv => TypeOK
    BY DEF SubjectInv, TypeOK, Held, View, Heaps, DistinctAfter
  <1> QED BY <1>1, SubjectInvHolds, PTL

(***************************************************************************)
(* No step writes an array that existed before it: whoever holds a copy, or *)
(* expands one, cannot change what another subject may do (the copy of      *)
(* report_authority.go 114).                                                *)
(***************************************************************************)
THEOREM ArraysAlwaysUntouched == Spec => ArraysUntouched
  <1>1. SubjectInv /\ [Next]_vars =>
            [\A i \in DOMAIN arrays : i \in DOMAIN arrays' /\ arrays'[i] = arrays[i]]_vars
    <2> SUFFICES ASSUME SubjectInv, [Next]_vars
                 PROVE  \A i \in DOMAIN arrays : i \in DOMAIN arrays' /\ arrays'[i] = arrays[i]
      OBVIOUS
    <2>1. Keeps(arrays') /\ arrays \in Heaps
      BY SubjectStep DEF SubjectInv
    <2>2. /\ Len(arrays) \in Nat /\ DOMAIN arrays = 1..Len(arrays)
          /\ DOMAIN arrays' = 1..Len(arrays') /\ Len(arrays') \in Nat
      BY <2>1 DEF Keeps, Heaps
    <2> QED BY <2>1, <2>2 DEF Keeps
  <1> QED BY <1>1, SubjectInvHolds, PTL DEF Spec, ArraysUntouched

(***************************************************************************)
(* A process may do what its principal may, and exactly what the host gave  *)
(* it and derived for it (report_authority.go 60-65, 78-92, 106-128).       *)
(***************************************************************************)
THEOREM CapabilitiesAlwaysExact == Spec => []CapabilitiesExact
  <1>1. SubjectInv => CapabilitiesExact
    BY DEF SubjectInv, CapabilitiesExact, Held, HasPermission
  <1> QED BY <1>1, SubjectInvHolds, PTL

=============================================================================
