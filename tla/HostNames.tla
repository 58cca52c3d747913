----------------------------- MODULE HostNames -----------------------------
(***************************************************************************)
(* internal/apex/apex.go and dedupeLower of internal/rfc6962/leaf.go: the  *)
(* two ways of a name.  A certificate's name is trimmed, mapped and given  *)
(* an apex before it is stored; a search query is normalised and must be   *)
(* an apex.  A name is the sequence of what stands between its dots, so    *)
(* that a dot at the end is an empty label behind it.                      *)
(***************************************************************************)
EXTENDS Naturals, Sequences, SequencesExt, FiniteSets, FiniteSetsExt

CONSTANTS
    Labels,       \* labels, the empty one among them
    MaxLabels,    \* bound: labels of a name
    PublicSuffixes, \* names in the Public Suffix List
    Ascii,        \* of a label, what IDNA maps it to; NoLabel if it is refused
    NonAscii,     \* labels with other characters than those of ASCII
    Controls,     \* labels with control bytes
    Service,      \* ASCII labels of letters, digits, '-' and '_' that IDNA refuses
    TooLong,      \* labels of more than 63 octets
    RightToLeft,  \* mapped labels with characters written from right to left
    BreaksBidi,   \* mapped labels that a name with such a label must not have
    Lower,        \* of a label, its lower case
    Special       \* the special-use suffixes

\* The empty label.
NoLabel == ""

ASSUME HostNamesAssumption ==
    /\ NoLabel \in Labels /\ "*" \in Labels
    /\ {Ascii, Lower} \subseteq [Labels -> Labels]
    /\ UNION {NonAscii, Controls, Service, TooLong, RightToLeft, BreaksBidi} \subseteq Labels
    /\ MaxLabels \in Nat

\* External: of the tables, that IDNA keeps what it has given, which is ASCII in
\* lower case, and does not tell upper from lower case; that it maps neither a
\* wildcard nor a service label; and that only letters of ASCII have another
\* lower case.
ASSUME TablesAssumption ==
    /\ \A l \in Labels :
          /\ Lower[Lower[l]] = Lower[l]
          /\ Lower[l] = NoLabel <=> l = NoLabel
          /\ l \in NonAscii => Lower[l] \in NonAscii
          /\ l \in Controls => Lower[l] \in Controls
          /\ l \notin NonAscii => Ascii[l] = Ascii[Lower[l]]
          /\ Ascii[l] # NoLabel =>
                /\ Ascii[Ascii[l]] = Ascii[l] /\ Lower[Ascii[l]] = Ascii[l]
                /\ Ascii[l] \notin NonAscii \cup Controls
    /\ Ascii["*"] = NoLabel /\ "*" \notin Service
    /\ \A l \in Service : Ascii[l] = NoLabel

VARIABLES
    host,    \* a name in a certificate
    stored   \* the record it becomes: <<>> before, <<NoRecord>> if it becomes none

hostVars == <<host, stored>>

NoRecord == [apex |-> <<>>, sub |-> <<>>]

-----------------------------------------------------------------------------
(* Labels *)

TrimTrailingDot(n) == IF Len(n) > 1 /\ Last(n) = NoLabel THEN Front(n) ELSE n

TrimWildcard(n) == IF Len(n) > 1 /\ Head(n) = "*" THEN Tail(n) ELSE n

\* External: ToASCII of the IDNA profiles.  Both map labels alike and refuse the
\* same ones; they look over empty ones.
Mappable(n) == \A i \in DOMAIN n : n[i] = NoLabel \/ Ascii[n[i]] # NoLabel

ToASCII(n) == [i \in DOMAIN n |-> IF n[i] = NoLabel THEN NoLabel ELSE Ascii[n[i]]]

\* External: the Bidi rule, which lookupProfile has and ingestProfile has not: one
\* label written from right to left puts demands on every label of the name.
ObeysBidi(n) == ToSet(n) \cap RightToLeft = {} \/ ToSet(n) \cap BreaksBidi = {}

\* External: EffectiveTLDPlusOne.  A top-level label that is not listed is a
\* suffix of its own; a name that is no longer than its suffix has no apex.
SuffixLength(n) ==
    Max({1} \cup {k \in 1..Len(n) : SubSeq(n, Len(n) - k + 1, Len(n)) \in PublicSuffixes})

HasApex(n) == NoLabel \notin ToSet(n) /\ Len(n) > SuffixLength(n)

EffectiveTLDPlusOne(n) == SubSeq(n, Len(n) - SuffixLength(n), Len(n))

-----------------------------------------------------------------------------
(* A certificate's name: dedupeLower, Canonical, ApexOf *)

\* dedupeLower, for one name: <<NoLabel>> if it is left out.
Deduped(n) ==
    LET s == TrimWildcard(TrimTrailingDot([i \in DOMAIN n |-> Lower[n[i]]]))
    IN  IF ToSet(s) \cap Controls = {} THEN s ELSE <<NoLabel>>

\* Mutant: a name that IDNA can map is stored as it came.
Canonical_Unmapped(n) ==
    LET s == TrimTrailingDot(TrimWildcard(n))
    IN  IF s # <<NoLabel>> /\ NoLabel \notin ToSet(s) /\ ToSet(s) \cap TooLong = {} THEN s ELSE <<NoLabel>>

\* A name that IDNA refuses is kept if it is made of plain or service labels.
Canonical(n) ==
    LET s == TrimTrailingDot(TrimWildcard(n))
        c == IF Mappable(s) THEN ToASCII(s) ELSE s
    IN  IF /\ Mappable(s) \/ \A l \in ToSet(s) : l \in Service \/ l = NoLabel \/ Ascii[l] = l
           /\ NoLabel \notin ToSet(c)
           /\ ToSet(c) \cap TooLong = {}
        THEN c ELSE <<NoLabel>>

\* What DecodeLeafEntry leaves of a name and fetchRange makes of it.
RecordOf(n) ==
    LET d == Deduped(n)
        c == Canonical(d)
    IN  IF d = <<NoLabel>> \/ c = <<NoLabel>> \/ ~HasApex(c) THEN NoRecord
        ELSE [apex |-> EffectiveTLDPlusOne(c), sub |-> c]

StoreName ==
    /\ stored = <<>>
    /\ stored' = <<RecordOf(host)>>
    /\ UNCHANGED host

-----------------------------------------------------------------------------
(* A query: Normalize, ValidateApex *)

IsSpecial(n) == \E suf \in Special : IsSuffix(suf, n)

Normalize(q) ==
    LET s == TrimTrailingDot(q)
    IN  IF /\ s # <<NoLabel>>
           /\ ToSet(s) \cap (NonAscii \cup Controls) = {}
           /\ Mappable(s) /\ ObeysBidi(ToASCII(s))
           /\ ~IsSpecial(ToASCII(s))
        THEN ToASCII(s) ELSE <<NoLabel>>

ValidateApex(n) == IF HasApex(n) /\ EffectiveTLDPlusOne(n) = n THEN n ELSE <<NoLabel>>

\* handleSearch: the apex a query asks for, or <<NoLabel>> if it is refused.
Asked(q) == ValidateApex(Normalize(q))

-----------------------------------------------------------------------------

HostInit ==
    /\ host \in UNION {[1..n -> Labels] : n \in 1..MaxLabels}
    /\ stored = <<>>

HostNext == StoreName

HostSpec == HostInit /\ [][HostNext]_hostVars

-----------------------------------------------------------------------------
(* Properties *)

Record == IF stored = <<>> THEN NoRecord ELSE stored[1]

\* What a client may type for an apex: upper case, a dot at the end.
Spellings(apex) ==
    LET q == {q \in [DOMAIN apex -> {l \in Labels : Lower[l] \in ToSet(apex)}] :
                 \A i \in DOMAIN apex : Lower[q[i]] = apex[i]}
    IN  q \cup {Append(n, NoLabel) : n \in q}

\* Apexes that are stored and that no query finds: those for special use, those
\* with a label that only storing accepts, and those that break the Bidi rule,
\* which only queries are held to.
OnlyStored(apex) ==
    IsSpecial(apex) \/ ToSet(apex) \cap Service # {} \/ ~ObeysBidi(apex)

\* Canonical and Normalize (apex.go:49, "so stored records match what search
\* clients ask for"): the apex of a stored name is a query that finds it, and so
\* is every other spelling of it in upper case or with a dot at the end, but for
\* the three kinds above, which are refused in every spelling.  The name lies
\* below its apex, and storing it again changes nothing.
StoredIsSearchable ==
    LET apex == Record.apex
    IN  Record # NoRecord =>
            /\ IsSuffix(apex, Record.sub)
            /\ Canonical(Deduped(Record.sub)) = Record.sub
            /\ \A q \in Spellings(apex) :
                   Asked(q) = IF OnlyStored(apex) THEN <<NoLabel>> ELSE apex
=============================================================================
