------------------------------- MODULE Entry -------------------------------
(***************************************************************************)
(* internal/rfc6962/leaf.go and tbs.go, and the date that fetchRange makes *)
(* of the result: what is read of one entry of a CT log.  An entry is a    *)
(* sequence of octets.  A log encodes a leaf (RFC 6962, section 3.4) and   *)
(* may break it off anywhere; the readers know nothing but the octets.     *)
(***************************************************************************)
EXTENDS Integers, Sequences, SequencesExt, FiniteSets, FiniteSetsExt

CONSTANTS
    HashWidth,    \* octets of a hash (32 in the code)
    StampWidth,   \* octets of a timestamp (8 in the code)
    Leaves,       \* leaves that a log may encode
    CutsOf(_)     \* bound: how many octets may be missing at the end of an entry

ASSUME EntryAssumption == HashWidth \in Nat /\ StampWidth \in Nat \ {0}

VARIABLES
    given,    \* the leaf
    entry,    \* what is left of its octets
    decoded,  \* the result of DecodeLeafEntry, once there is one
    dated     \* what fetchRange makes of it

entryVars == <<given, entry, decoded, dated>>

-----------------------------------------------------------------------------
(* Octets *)

BigEndian(b) == FoldLeft(LAMBDA n, o : 256 * n + o, 0, b)

\* int64(Uint64(b)).
Stamp(b) ==
    LET n == BigEndian(b) IN IF Head(b) < 128 THEN n ELSE n - 256^StampWidth

First(b, n) == SubSeq(b, 1, n)
After(b, n) == SubSeq(b, n + 1, Len(b))

Refused == [ok |-> FALSE]

\* What comes of a result that may be a refusal.
Then(result, Use(_)) == IF result.ok THEN Use(result) ELSE result

-----------------------------------------------------------------------------
(* DER: readTLV and iterDER *)

\* The element of n octets of tag and length, and as many of content.
Cut(b, n, content) ==
    IF Len(b) < n + content THEN Refused
    ELSE [ok |-> TRUE, tag |-> b[1], body |-> First(After(b, n), content),
          size |-> n + content]

\* The first element: a length from 128 on is preceded by the number of its octets.
ReadTLV(b) ==
    IF Len(b) < 2 THEN Refused
    ELSE IF b[2] < 128 THEN Cut(b, 2, b[2])
    ELSE LET n == b[2] - 128
         IN  IF n \notin 1..4 \/ Len(b) < 2 + n THEN Refused
             ELSE Cut(b, 2 + n, BigEndian(First(After(b, 2), n)))

\* All elements, or a refusal.
IterDER(b) ==
    LET from[i \in 0..Len(b)] ==
            LET and(rest, e) == [ok |-> TRUE, elements |-> <<e>> \o rest.elements]
                after(e) == Then(from[i + e.size], LAMBDA rest : and(rest, e))
            IN  IF i = Len(b) THEN [ok |-> TRUE, elements |-> <<>>]
                ELSE Then(ReadTLV(After(b, i)), after)
    IN  from[0]

\* External: asn1.Unmarshal into a RawValue, for lengths in their shortest form.
Unmarshal(b) == ReadTLV(b)

-----------------------------------------------------------------------------
(* The list of SCTs: parseSCTList and parseSingleSCT *)

\* Not long enough to hold a timestamp: 0.
SingleSCT(b) ==
    IF Len(b) < 1 + HashWidth + StampWidth THEN 0
    ELSE Stamp(First(After(b, 1 + HashWidth), StampWidth))

\* Mutant: an SCT that is cut off is read as far as it goes.
SCTs_CutOff(b) ==
    LET from[i \in 0..Len(b)] ==
            IF i + 2 > Len(b) THEN <<>>
            ELSE LET n == BigEndian(First(After(b, i), 2))
                 IN  IF i + 2 + n > Len(b) THEN <<SingleSCT(After(b, i + 2))>>
                     ELSE <<SingleSCT(First(After(b, i + 2), n))>> \o from[i + 2 + n]
    IN  from[0]

\* The dates of the SCTs up to the first that is cut off.
SCTs(b) ==
    LET from[i \in 0..Len(b)] ==
            IF i + 2 > Len(b) THEN <<>>
            ELSE LET n == BigEndian(First(After(b, i), 2))
                 IN  IF i + 2 + n > Len(b) THEN <<>>
                     ELSE <<SingleSCT(First(After(b, i + 2), n))>> \o from[i + 2 + n]
    IN  from[0]

ParseSCTList(b) ==
    IF Len(b) < 2 \/ Len(b) < 2 + BigEndian(First(b, 2)) THEN <<>>
    ELSE SelectSeq(SCTs(First(After(b, 2), BigEndian(First(b, 2)))), LAMBDA d : d > 0)

-----------------------------------------------------------------------------
(* Certificates: namesFromTBS, parseSAN, namesFromCert *)

SubjectAltName == <<85, 29, 17>>
SCTList == <<43, 6, 1, 4, 1, 214, 121, 2, 4, 2>>

\* Tags: an object identifier, the extensions [3], a dNSName [2].
OID == 6
ExtensionsTag == 163
DNSName == 130

\* The bodies of the elements that are dNSNames.
NamesAmong(elements) ==
    LET dns == SelectSeq(elements, LAMBDA k : k.tag = DNSName)
    IN  [i \in DOMAIN dns |-> dns[i].body]

ParseSAN(b) ==
    LET inner == Unmarshal(b)
        kids  == IF inner.ok THEN IterDER(inner.body) ELSE inner
        names(k) == IF k.ok THEN NamesAmong(k.elements) ELSE <<>>
    IN  names(kids)

\* The fields of an extension, if they can be read, begin with an identifier and
\* end with a value: one that is critical says so in between.
IsExtension(fields, oid) ==
    /\ fields.ok
    /\ Len(fields.elements) >= 2
    /\ fields.elements[1].tag = OID /\ fields.elements[1].body = oid

\* The value of the last extension with this identifier, else <<>>.
Value(exts, oid) ==
    LET found == SelectSeq([i \in DOMAIN exts |-> IterDER(exts[i].body)],
                           LAMBDA fields : IsExtension(fields, oid))
        value(of) == IF of = <<>> THEN <<>> ELSE Last(Last(of).elements).body
    IN  value(found)

Read(names, dates) == [ok |-> TRUE, names |-> names, dates |-> dates]

\* The extensions are in the first element with their tag, in a sequence.
NamesFromTBS(b) ==
    LET read(exts) == Read(ParseSAN(Value(exts.elements, SubjectAltName)),
                           ParseSCTList(Value(exts.elements, SCTList)))
        inSeq(extSeq) == Then(IterDER(extSeq.body), read)
        inFirst(wraps) == IF wraps = <<>> THEN Read(<<>>, <<>>)
                          ELSE Then(Unmarshal(wraps[1].body), inSeq)
        among(children) ==
            inFirst(SelectSeq(children.elements, LAMBDA c : c.tag = ExtensionsTag))
        inside(outer) == Then(IterDER(outer.body), among)
    IN  Then(Unmarshal(b), inside)

-----------------------------------------------------------------------------
(* What a log encodes *)

Octets(n, width) == [i \in 1..width |-> (n \div 256^(width - i)) % 256]

\* The octets, and in front of them how many there are.
Counted(width, body) == Octets(Len(body), width) \o body

\* A length comes in its shortest form.
Element(tag, body) ==
    <<tag>> \o (CASE Len(body) < 128       -> Counted(1, body)
                  [] Len(body) \in 128..255 -> <<129>> \o Counted(1, body)
                  [] OTHER                  -> <<130>> \o Counted(2, body))

\* An SCT is its date, or nothing when it is too short to hold one.
EncodedSCT(sct) ==
    <<0>> \o (IF sct = <<>> THEN <<>>
              ELSE Octets(0, HashWidth) \o Octets(sct[1], StampWidth) \o <<0, 0>>)

\* A list of SCTs, then octets that are none, and a length that may claim more.
EncodedList(l) ==
    LET scts == FlattenSeq([i \in DOMAIN l.scts |-> Counted(2, EncodedSCT(l.scts[i]))])
        list(of) == Octets(Len(of) + l.claimed, 2) \o of
    IN  list(scts \o l.tail)

Extension(oid, critical, value) ==
    Element(48, Element(OID, oid) \o (IF critical THEN Element(1, <<255>>) ELSE <<>>)
                \o Element(4, value))

\* An extension that has no value: readers pass over it.
BrokenExtension == Element(48, Element(OID, SubjectAltName))

\* RFC 6962, section 3.3, wraps the list of SCTs in an OCTET STRING.
ListValue(l) == IF l.wrapped THEN Element(4, EncodedList(l)) ELSE EncodedList(l)

Extensions(lf) ==
    (IF lf.sans = <<>> THEN <<>>
     ELSE LET sans == FlattenSeq([i \in DOMAIN lf.sans |->
                                     Element(lf.sans[i].tag, lf.sans[i].body)])
          IN  Extension(SubjectAltName, TRUE, Element(48, sans)))
    \o (IF lf.kind = 1 THEN BrokenExtension ELSE <<>>)
    \o (IF lf.list.scts = <<>> THEN <<>>
        ELSE Extension(SCTList, FALSE, ListValue(lf.list)))

\* With a number, standing for what comes before the extensions; a certificate
\* may lack octets at its end.
Certificate(lf) ==
    LET exts == IF lf.sans = <<>> /\ lf.list.scts = <<>> THEN <<>>
                ELSE Element(ExtensionsTag, Element(48, Extensions(lf)))
        cut(tbs) == First(tbs, Len(tbs) - lf.chopped)
    IN  cut(Element(48, Element(2, <<1>>) \o exts))

Encoded(lf) ==
    <<0, 0>> \o Octets(lf.stamp, StampWidth) \o Octets(lf.kind, 2)
    \o (IF lf.kind = 1 THEN Octets(0, HashWidth) ELSE <<>>)
    \o Counted(3, Certificate(lf)) \o <<0, 0>>

DNSNames(lf) ==
    LET dns == SelectSeq(lf.sans, LAMBDA n : n.tag = DNSName)
    IN  [i \in DOMAIN dns |-> dns[i].body]

-----------------------------------------------------------------------------
(* DecodeLeafEntry *)

\* External: x509.ParseCertificate, which knows a certificate from anything else.
Certificates ==
    {[ok |-> TRUE, der |-> Certificate(lf), names |-> DNSNames(lf),
      scts |-> IF lf.list.scts = <<>> THEN <<>> ELSE ListValue(lf.list)]
        : lf \in {lf \in Leaves : lf.kind = 0 /\ lf.chopped = 0}}

ParseCertificate(b) ==
    LET of(known) == IF known = {} THEN Refused ELSE CHOOSE c \in known : TRUE
    IN  of({c \in Certificates : c.der = b})

NamesFromCert(b) ==
    Then(ParseCertificate(b), LAMBDA cert : Read(cert.names, ParseSCTList(cert.scts)))

\* readUint24Labeled, with the length of the extensions that must follow.
Labeled(b) ==
    IF Len(b) < 3 \/ Len(b) < 3 + BigEndian(First(b, 3)) + 2 THEN Refused
    ELSE [ok |-> TRUE, body |-> First(After(b, 3), BigEndian(First(b, 3)))]

\* decodeTimestampedEntry: a hash comes before the TBS certificate of a precert.
TimestampedEntry(te) ==
    LET kind == BigEndian(First(After(te, StampWidth), 2))
        head == StampWidth + 2 + (IF kind = 1 THEN HashWidth ELSE 0)
        cert(der) == IF kind = 0 THEN NamesFromCert(der.body) ELSE NamesFromTBS(der.body)
        leaf(c) == [ok |-> TRUE, names |-> c.names, dates |-> c.dates,
                    stamp |-> Stamp(First(te, StampWidth))]
    IN  IF Len(te) < StampWidth + 2 \/ kind \notin {0, 1} \/ Len(te) < head THEN Refused
        ELSE Then(Then(Labeled(After(te, head)), cert), leaf)

DecodeLeafEntry(b) ==
    IF Len(b) < 2 \/ b[1] # 0 \/ b[2] # 0 THEN Refused ELSE TimestampedEntry(After(b, 2))

-----------------------------------------------------------------------------
(* fetchRange, one entry *)

Undecided == [ok |-> FALSE, undecided |-> TRUE]

Decode ==
    /\ decoded = Undecided
    /\ decoded' = DecodeLeafEntry(entry)
    /\ UNCHANGED <<given, entry, dated>>

Skipped == 0

\* The entry's own date, unless an SCT has an earlier one.
FirstSeen(d) ==
    LET earlier(fs, s) == IF s > 0 /\ (fs = 0 \/ s < fs) THEN s ELSE fs
    IN  FoldLeft(earlier, d.stamp, d.dates)

Date ==
    /\ decoded # Undecided
    /\ dated = <<>>
    /\ dated' = <<IF decoded.ok /\ FirstSeen(decoded) > 0 THEN FirstSeen(decoded) ELSE Skipped>>
    /\ UNCHANGED <<given, entry, decoded>>

EntryInit ==
    /\ given \in Leaves
    /\ \E cut \in CutsOf(given) :
           entry = First(Encoded(given), Len(Encoded(given)) - cut)
    /\ decoded = Undecided
    /\ dated = <<>>

EntryNext == Decode \/ Date

-----------------------------------------------------------------------------
(* Properties *)

Whole == entry = Encoded(given) /\ given.kind \in {0, 1} /\ given.chopped = 0

\* The dates of the SCTs in a list that is encoded as parseSCTList expects it.
\* One wrapped in an OCTET STRING begins with the tag 4 and seems to be longer
\* than it is: no date is read.
DatesOf(l) ==
    IF l.wrapped \/ l.claimed > 0 THEN {}
    ELSE {l.scts[i][1] : i \in {i \in DOMAIN l.scts : l.scts[i] # <<>> /\ l.scts[i][1] > 0}}

\* DecodeLeafEntry and fetchRange: of a whole entry every name is read, in its
\* order, and every date that can be read; the date stored is the earliest of
\* them and the entry's own.  An entry that breaks off anywhere is refused, and
\* so is one whose own date is negative, whatever dates its SCTs have.
ReadAsEncoded ==
    dated # <<>> =>
        IF ~Whole THEN ~decoded.ok /\ dated[1] = Skipped
        ELSE LET dates == DatesOf(given.list)
                 all   == dates \cup ({given.stamp} \ {0})
             IN  /\ decoded.ok
                 /\ decoded.names = DNSNames(given)
                 /\ ToSet(decoded.dates) = dates
                 /\ dated[1] = IF given.stamp < 0 \/ all = {} THEN Skipped ELSE Min(all)
=============================================================================
