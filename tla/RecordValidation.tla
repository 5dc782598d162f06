-------------------------- MODULE RecordValidation --------------------------
(* What record_validation.py finds in the records of a zone.  A record has   *)
(* an owner and a type; one of type CNAME, NS or MX points to a target, an   *)
(* owner of the zone or a name outside it.  Records that agree in everything *)
(* but "copy" are equal to the program.  An issue is known by its key: the   *)
(* code, the owner and what the message names.                               *)
EXTENDS Naturals, FiniteSets

CONSTANTS
    Owners,      \* names inside the zone
    Apex,        \* the name of the zone
    Malformed    \* records whose data or TTL validate_record() refuses

ASSUME ValidationAssumption == Apex \in Owners

LOCAL Types(recs) == {r.type : r \in recs}
LOCAL OfType(recs, types) == {r \in recs : r.type \in types}
OwnedBy(recs, o) == {r \in recs : r.owner = o}

\* An apex has exactly one SOA and some name server.
ApexIssues(recs) ==
    LET soa == Cardinality(OfType(OwnedBy(recs, Apex), {"SOA"}))
    IN  (IF soa = 1 THEN {} ELSE {<<"soa-count", Apex, soa>>})
        \cup IF "NS" \in Types(OwnedBy(recs, Apex)) THEN {} ELSE {<<"apex-ns", Apex>>}

Aliases(recs, o) == {r.target : r \in OfType(OwnedBy(recs, o), {"CNAME"})}

\* An alias stands alone and has one target.
AliasIssues(recs) ==
    {<<"cname-conflict", o>> : o \in {x \in Owners :
        Aliases(recs, x) # {} /\ Types(OwnedBy(recs, x)) # {"CNAME"}}}
    \cup {<<"multiple-cname", o>> : o \in {x \in Owners : Cardinality(Aliases(recs, x)) > 1}}

\* The alias the walk takes from each owner that has one.
CnameTargets(recs) ==
    [o \in {x \in Owners : Aliases(recs, x) # {}} |-> CHOOSE t \in Aliases(recs, o) : TRUE]

\* A walk that still has an alias to follow after as many as there are owners
\* is in a loop.
LoopIssues(recs) ==
    LET next == CnameTargets(recs)
        reached[n \in 0 .. Cardinality(Owners)] ==
            IF n = 0 THEN [o \in DOMAIN next |-> o]
            ELSE [o \in DOMAIN next |-> IF reached[n - 1][o] \in DOMAIN next
                                        THEN next[reached[n - 1][o]] ELSE reached[n - 1][o]]
    IN {<<"cname-loop", o>> : o \in {x \in DOMAIN next :
           reached[Cardinality(Owners)][x] \in DOMAIN next}}

Pointing(recs) == {r \in OfType(recs, {"CNAME", "NS", "MX"}) : r.target \in Owners}
Unaddressed(recs, r) == "A" \notin Types(OwnedBy(recs, r.target))

\* Targets in the zone: they exist, a service does not point to an alias and
\* finds an address.
MissingTargets(recs, types) ==
    {<<"missing-local-target", r.owner, r.target>> :
        r \in {x \in OfType(Pointing(recs), types) : OwnedBy(recs, x.target) = {}}}

AliasTargets(recs) ==
    {<<"alias-service-target", r.owner, r.type>> :
        r \in {x \in OfType(Pointing(recs), {"NS", "MX"}) :
                 "CNAME" \in Types(OwnedBy(recs, x.target))}}

MissingAddresses(recs, types) ==
    {<<"missing-address-target", r.owner, r.type>> :
        r \in {x \in OfType(Pointing(recs), types) :
                 OwnedBy(recs, x.target) # {} /\ Unaddressed(recs, x)}}

RecordIssues(recs) == {<<"invalid-rdata", r.owner, r.type>> : r \in recs \cap Malformed}

Duplicates(recs) ==
    {<<"duplicate-record", r.owner>> :
        r \in {x \in recs : \E y \in recs : x # y /\ [x EXCEPT !.copy = y.copy] = y}}

\* The keys validate_zone() reports as errors and as warnings: a missing target
\* or address is an error of a name server, a warning of another record.
Errors(recs) ==
    RecordIssues(recs) \cup ApexIssues(recs) \cup AliasIssues(recs) \cup LoopIssues(recs)
    \cup MissingTargets(recs, {"NS"}) \cup AliasTargets(recs) \cup MissingAddresses(recs, {"NS"})

Warnings(recs) ==
    Duplicates(recs) \cup MissingTargets(recs, {"CNAME", "MX"}) \cup MissingAddresses(recs, {"MX"})

Issues(recs) == Errors(recs) \cup Warnings(recs)
=============================================================================
