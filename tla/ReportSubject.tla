----------------------------- MODULE ReportSubject -----------------------------
(***************************************************************************)
(* ReportSubject: the process authority of an embedding host, held as a Go  *)
(* slice inside a value that is copied, expanded and serialized.            *)
(*                                                                          *)
(* A subject is passed by value, but its ProcessCapabilities are a view of  *)
(* an array that every copy shares.  WithExactProcessCapabilities is called *)
(* once per work item, often on the same base subject: an append that found *)
(* room in a shared array would hand the capability of one work item to     *)
(* another.  So the arrays and their spare capacity are part of the state.  *)
(*                                                                          *)
(* Who resolves, copies and sends subjects is the host (modulehost's        *)
(* SubjectResolver): those actions are external.                            *)
(***************************************************************************)
EXTENDS Naturals, Sequences

CONSTANTS
    Holders,        \* the places of the host that hold a subject
    Principals,     \* resolved principals
    Grants,         \* principal -> permissions it has by itself
    Entries,        \* capability entries and permissions, as written
    Trim,           \* strings.TrimSpace on Entries
    Wildcards,      \* the trimmed entries that contain "*"
    ProcessLists,   \* lists a host resolves a process with
    DerivedLists,   \* lists derived from a work item
    MaxArrays       \* bound of the model: arrays ever allocated

VARIABLES
    subject,        \* holder -> ReportSubject
    arrays,         \* the backing arrays, each as long as its capacity
    given,          \* history: with how many entries the process was resolved
    derived,        \* history: what the owners of the work granted the holder's subject
    external        \* history: the subject is not one resolved in this process

vars == <<subject, arrays, given, derived, external>>

Nobody == "nobody"

ASSUME SubjectAssumption ==
    /\ Trim \in [Entries -> Entries] /\ \A e \in Entries : Trim[Trim[e]] = Trim[e]
    /\ Wildcards \subseteq Entries
    /\ "" \in Entries /\ Trim[""] = "" /\ "" \notin Wildcards
    /\ Nobody \notin Principals
    /\ Grants \in [Principals -> SUBSET Entries]
    /\ ProcessLists \subseteq Seq(Entries) /\ DerivedLists \subseteq Seq(Entries)

-----------------------------------------------------------------------------
(***************************************************************************)
(* A slice is a prefix of an array; array 0 is the nil slice.               *)
(***************************************************************************)
Nil == [array |-> 0, len |-> 0]

Contents(heap, slice) ==
    IF slice.array = 0 THEN <<>> ELSE SubSeq(heap[slice.array], 1, slice.len)

Capacity(heap, slice) == IF slice.array = 0 THEN 0 ELSE Len(heap[slice.array])

Spare(n) == [i \in 1..n |-> ""]

(***************************************************************************)
(* append(slice, name): in place when the array has room, else in an array  *)
(* of twice the capacity; the array outgrown is forgotten when the call     *)
(* itself allocated it.  append([]string(nil), slice...) is a new array     *)
(* without room, or nil.                                                    *)
(***************************************************************************)
Grown(m, name) ==
    Append(Contents(m.heap, m.slice), name)
        \o Spare(IF m.slice.len = 0 THEN 0 ELSE m.slice.len - 1)

Appended(m, name) ==
    [heap |-> IF m.slice.len < Capacity(m.heap, m.slice)
              THEN [m.heap EXCEPT ![m.slice.array][m.slice.len + 1] = name]
              ELSE IF m.slice.array > Len(arrays)
              THEN [m.heap EXCEPT ![m.slice.array] = Grown(m, name)]
              ELSE Append(m.heap, Grown(m, name)),
     slice |-> [array |-> IF \/ m.slice.len < Capacity(m.heap, m.slice)
                             \/ m.slice.array > Len(arrays)
                          THEN m.slice.array ELSE Len(m.heap) + 1,
                len |-> m.slice.len + 1]]

\* Mutant: the expansion starts from the slice of the subject itself.
SharedWith(heap, slice) == [heap |-> heap, slice |-> slice]

CopyOf(heap, slice) ==
    IF slice.len = 0 THEN [heap |-> heap, slice |-> Nil]
    ELSE [heap |-> Append(heap, Contents(heap, slice)),
          slice |-> [array |-> Len(heap) + 1, len |-> slice.len]]

-----------------------------------------------------------------------------
NameSet(list) == {Trim[list[i]] : i \in DOMAIN list}

\* Mutant: entries are compared as they are written.
ExactAsWritten(m, entry) ==
    IF \/ entry = "" \/ entry \in Wildcards
       \/ \E i \in DOMAIN Contents(m.heap, m.slice) : Contents(m.heap, m.slice)[i] = entry
    THEN m ELSE Appended(m, entry)

\* One round of the loop of WithExactProcessCapabilities.
Exact(m, entry) ==
    LET name == Trim[entry]
    IN  IF name = "" \/ name \in Wildcards \/ name \in NameSet(Contents(m.heap, m.slice))
        THEN m ELSE Appended(m, name)

Expansion(slice, list) ==
    LET expanded[i \in 0..Len(list)] ==
            IF i = 0 THEN CopyOf(arrays, slice) ELSE Exact(expanded[i - 1], list[i])
    IN  expanded[Len(list)]

WithExactProcessCapabilities(s, list) ==
    IF ~s.trusted THEN [heap |-> arrays, subject |-> s]
    ELSE LET m == Expansion(s.slice, list)
         IN  [heap |-> m.heap, subject |-> [s EXCEPT !.slice = m.slice]]

GrantedTo(principal) == IF principal = Nobody THEN {} ELSE Grants[principal]

\* Mutant: the capabilities count whoever the subject is.
HasPermissionOfAnySubject(s, permission) ==
    \/ Trim[permission] \in GrantedTo(s.principal)
    \/ /\ Trim[permission] # ""
       /\ Trim[permission] \in NameSet(Contents(arrays, s.slice))

HasPermission(s, permission) ==
    \/ Trim[permission] \in GrantedTo(s.principal)
    \/ /\ s.trusted /\ Trim[permission] # ""
       /\ Trim[permission] \in NameSet(Contents(arrays, s.slice))

-----------------------------------------------------------------------------
Zero == [principal |-> Nobody, trusted |-> FALSE, slice |-> Nil]

Init ==
    /\ subject = [h \in Holders |-> Zero]
    /\ arrays = <<>>
    /\ given = [h \in Holders |-> 0]
    /\ derived = [h \in Holders |-> {}]
    /\ external = [h \in Holders |-> TRUE]

(***************************************************************************)
(* The host resolves a subject.  Its list may have room at the end, and an  *)
(* external subject may carry one too.                                      *)
(***************************************************************************)
Resolve(h, principal, trusted, list, spare) ==
    /\ subject' = [subject EXCEPT ![h] =
                      [principal |-> principal, trusted |-> trusted,
                       slice |-> [array |-> Len(arrays) + 1, len |-> Len(list)]]]
    /\ arrays' = Append(arrays, list \o Spare(spare))
    /\ given' = [given EXCEPT ![h] = Len(list)]
    /\ derived' = [derived EXCEPT ![h] = NameSet(list)]
    /\ external' = [external EXCEPT ![h] = ~trusted]

\* to := from
Assign(from, to) ==
    /\ subject' = [subject EXCEPT ![to] = subject[from]]
    /\ given' = [given EXCEPT ![to] = given[from]]
    /\ derived' = [derived EXCEPT ![to] = derived[from]]
    /\ external' = [external EXCEPT ![to] = external[from]]
    /\ UNCHANGED arrays

(***************************************************************************)
(* A subject sent as JSON and decoded into a new value: the fields tagged   *)
(* "-" are zero.                                                            *)
(***************************************************************************)
Decoded(s) == [principal |-> s.principal, trusted |-> FALSE, slice |-> Nil]

Send(from, to) ==
    /\ subject' = [subject EXCEPT ![to] = Decoded(subject[from])]
    /\ given' = [given EXCEPT ![to] = 0]
    /\ derived' = [derived EXCEPT ![to] = {}]
    /\ external' = [external EXCEPT ![to] = TRUE]
    /\ UNCHANGED arrays

\* to := from.WithExactProcessCapabilities(list...)
Expand(from, to, list) ==
    LET expansion == WithExactProcessCapabilities(subject[from], list)
    IN  /\ subject' = [subject EXCEPT ![to] = expansion.subject]
        /\ arrays' = expansion.heap
        /\ given' = [given EXCEPT ![to] = given[from]]
        /\ derived' = [derived EXCEPT ![to] =
                          derived[from] \cup (NameSet(list) \ (Wildcards \cup {""}))]
        /\ external' = [external EXCEPT ![to] = external[from]]

Next ==
    /\ \/ \E h \in Holders, principal \in Principals, trusted \in BOOLEAN,
             list \in ProcessLists, spare \in 0..1 : Resolve(h, principal, trusted, list, spare)
       \/ \E from, to \in Holders : Assign(from, to)
       \/ \E from, to \in Holders : Send(from, to)
       \/ \E from, to \in Holders, list \in DerivedLists : Expand(from, to, list)
    /\ Len(arrays') <= MaxArrays

Spec == Init /\ [][Next]_vars

-----------------------------------------------------------------------------
(***************************************************************************)
(* Slices lie inside their arrays, and no expansion lists a name that its   *)
(* list has already, under any spelling: of two entries with one name, both *)
(* are the host's own (the map `seen', report_authority.go 115-126).        *)
(***************************************************************************)
TypeOK ==
    /\ arrays \in Seq(Seq(Entries))
    /\ \A h \in Holders :
           LET s == subject[h]
               list == Contents(arrays, s.slice)
           IN  /\ s.principal \in Principals \cup {Nobody}
               /\ s.trusted \in BOOLEAN
               /\ s.slice.array \in 0..Len(arrays)
               /\ s.slice.len \in 0..Capacity(arrays, s.slice)
               /\ \A i, k \in DOMAIN list :
                      i < k /\ Trim[list[i]] = Trim[list[k]] => k <= given[h]

(***************************************************************************)
(* An array that some subject may view is never written, the room past the  *)
(* view's end included: an expansion writes only the array it made (the     *)
(* copy of report_authority.go 114).                                        *)
(***************************************************************************)
ArraysUntouched ==
    [][\A i \in DOMAIN arrays : i \in DOMAIN arrays' /\ arrays'[i] = arrays[i]]_vars

(***************************************************************************)
(* A process may do what its principal may, and exactly what the host gave  *)
(* it and derived for it, whatever other expansions and copies of the same  *)
(* subject exist (report_authority.go 60-65, 106-128).                      *)
(***************************************************************************)
CapabilitiesExact ==
    \A h \in Holders : ~external[h] =>
        \A p \in Entries :
            HasPermission(subject[h], p) <=>
                \/ Trim[p] \in GrantedTo(subject[h].principal)
                \/ Trim[p] # "" /\ Trim[p] \in derived[h]

(***************************************************************************)
(* Process authority cannot be manufactured: a subject that came from       *)
(* outside, or crossed JSON, has the permissions of its principal and no    *)
(* others, however often it is copied and expanded (60-64, 106-111).        *)
(***************************************************************************)
ExternalSubjectsGainNothing ==
    \A h \in Holders : external[h] =>
        \A p \in Entries :
            HasPermission(subject[h], p) <=> Trim[p] \in GrantedTo(subject[h].principal)

=============================================================================
