------------------------------- MODULE ExportTTL -------------------------------
(***************************************************************************)
(* ReportExportDownloadTTLSeconds: the lifetime of an exported file, from   *)
(* the typed field of its control, the legacy entry of its config or the    *)
(* default of the caller.                                                   *)
(*                                                                          *)
(* MaxInt stands for math.MaxInt64 and Nanos for the nanoseconds of a       *)
(* second: what matters is that Nanos * seconds must not exceed MaxInt.  A  *)
(* legacy entry is [form, value], where value is the number the author      *)
(* wrote and form its Go type; "fraction" is a float that is no integer,    *)
(* "other" anything that is no number, "absent" no entry at all.            *)
(***************************************************************************)
EXTENDS Integers

CONSTANTS
    MaxInt,         \* the largest int64
    Nanos,          \* nanoseconds per second
    MinimumTTL,     \* MinimumReportExportDownloadTTLSeconds
    DefaultTTL      \* the caller's default

ASSUME TTLAssumption ==
    /\ MaxInt \in Nat
    /\ Nanos \in Nat /\ Nanos > 1
    /\ MinimumTTL \in Nat /\ MinimumTTL > 0
    /\ DefaultTTL \in (-MaxInt - 1)..MaxInt

MinInt == -MaxInt - 1
Int64 == MinInt..MaxInt

LegacyForms == {"absent", "signed", "unsigned", "number", "float", "fraction", "other"}

Legacy == [form : LegacyForms, value : Int]

MaximumDurationSeconds == MaxInt \div Nanos

-----------------------------------------------------------------------------
(***************************************************************************)
(* reportExportLegacyDownloadTTLSeconds: the values an entry may convert    *)
(* to, none when it is refused.  The bound of the floats is math.MaxInt64   *)
(* rounded up to a float64, which is MaxInt + 1; converting that number is  *)
(* implementation-defined, and wraps or saturates.                          *)
(***************************************************************************)
LegacySeconds(legacy) ==
    {s \in Int64 :
        \/ legacy.form \in {"signed", "unsigned", "number", "float"} /\ s = legacy.value
        \/ legacy.form = "float" /\ legacy.value = MaxInt + 1 /\ s \in {MinInt, MaxInt}}

\* Mutant: a legacy zero is not authored either.
SelectedUnlessZero(typed, legacy) ==
    IF legacy.form = "absent" \/ legacy.value = 0
    THEN {IF typed = 0 THEN DefaultTTL ELSE typed}
    ELSE {s \in LegacySeconds(legacy) : typed \in {0, s}}

\* Seconds before the range is checked: a typed zero is not authored.
SelectedSeconds(typed, legacy) ==
    IF legacy.form = "absent"
    THEN {IF typed = 0 THEN DefaultTTL ELSE typed}
    ELSE {s \in LegacySeconds(legacy) : typed \in {0, s}}

\* Mutant: only int64 bounds the seconds.
LifetimesUpToMaxInt(typed, legacy) ==
    {s \in SelectedSeconds(typed, legacy) : s \in MinimumTTL..MaxInt}

\* ReportExportDownloadTTLSeconds: what it may return, nothing when it refuses.
DownloadTTLs(typed, legacy) ==
    {s \in SelectedSeconds(typed, legacy) : s \in MinimumTTL..MaximumDurationSeconds}

=============================================================================
