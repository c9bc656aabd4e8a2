----------------------------- MODULE ConfigRules -----------------------------
(***************************************************************************)
(* Which configuration files yca accepts, and what it makes of one         *)
(* (src/src/config.cpp).  A file is a record: the keys that once matter to *)
(* another rule have a field; wellFormed stands for the rest, every value  *)
(* there, of its type and in its alphabet.                                 *)
(***************************************************************************)
EXTENDS Integers, Sequences, FiniteSets

CONSTANTS
    Lineages,   \* the CAs a file may declare: "root" and purposes
    Profiles,   \* certificate profiles
    MaxDays,    \* [Profiles -> Nat]: the ceiling on a profile's validity
    FullDn,     \* profiles whose subject needs the organizational attributes
    IntHalf,    \* an int holds -IntHalf .. IntHalf - 1
    None

ASSUME ProfileAssumption ==
    /\ MaxDays \in [Profiles -> Nat]
    /\ FullDn \subseteq Profiles
    /\ IntHalf \in Nat \ {0}
    /\ "root" \in Lineages

\* A prefix and a slug are sequences of characters.
DigitChar == <<"0", "1", "2", "3", "4", "5", "6", "7", "8", "9">>
Digit == {"0", "1", "2", "3", "4", "5", "6", "7", "8", "9"}
\* The decimal digits of an int.
TenTo == <<1, 10, 100, 1000, 10000, 100000, 1000000, 10000000, 100000000, 1000000000>>
Width(n) == 1 + Cardinality({k \in 2 .. 10 : TenTo[k] <= n})
Decimal(n) == [i \in 1 .. Width(n) |->
                  DigitChar[((n \div TenTo[Width(n) - i + 1]) % 10) + 1]]

Listed(seq) == {seq[i] : i \in 1 .. Len(seq)}

\* A file: the sections it declares are the domain of its field ca.
Purposes(f) == DOMAIN f.ca \ {"root"}
Issuing(f) == {f.ca[pu] : pu \in Purposes(f)}
Sections(f) == {f.ca[x] : x \in DOMAIN f.ca}

-----------------------------------------------------------------------------
(* Reading *)

\* get_int: a 64-bit integer cast to int.
Narrow(n) == ((n + IntHalf) % (2 * IntHalf)) - IntHalf

\* resolve_label: the section's own token label, or the default.
Label(f, s) == IF s.backend # "pkcs11" THEN None
               ELSE IF s.label # None THEN s.label ELSE f.label

\* What load returns for a section.
Loaded(f, x) == [f.ca[x] EXCEPT !.days = Narrow(@), !.eeDays = Narrow(@),
                                !.label = Label(f, f.ca[x])]

\* The artifact base name and token key label of a generation.
SlugText(s, g) == s.prefix \o Decimal(g)

-----------------------------------------------------------------------------
(* Rules *)

\* "These duration comparisons match the certificate lifetimes only at init."
LifetimesOk(f) ==
    LET days(s) == Narrow(s.days)
        eeDays(s) == Narrow(s.eeDays)
    IN /\ days(f.ca["root"]) > 0
       /\ \A s \in Issuing(f) :
             /\ eeDays(s) > 0 /\ eeDays(s) < days(s)
             /\ days(s) < days(f.ca["root"])
             /\ \A p \in Listed(s.profiles) : eeDays(s) <= MaxDays[p]

\* A CA lists known profiles, at least one; simple_dn may not take from a
\* profile a subject it needs; policies are for the profiles it lists.
ProfilesOk(f) ==
    \A s \in Issuing(f) :
        /\ s.profiles # <<>> /\ Listed(s.profiles) \subseteq Profiles
        /\ s.simpleDn => Listed(s.profiles) \cap FullDn = {}
        /\ s.policies \subseteq Listed(s.profiles)

\* claim: no two CAs share a slug prefix or a common name.
NamesDistinct(f) ==
    \A x, y \in DOMAIN f.ca : x # y => /\ f.ca[x].prefix # f.ca[y].prefix
                                       /\ f.ca[x].cn # f.ca[y].cn

\* "each profile belongs to exactly one CA", which lists it once.
Mutant_ProfilesAnyones(f) == TRUE
ProfilesOwned(f) ==
    /\ \A s \in Issuing(f) : Cardinality(Listed(s.profiles)) = Len(s.profiles)
    /\ \A x, y \in Purposes(f) : x # y =>
          Listed(f.ca[x].profiles) \cap Listed(f.ca[y].profiles) = {}

Mutant_OneDigitApart(a, b) ==
    /\ Len(b) = Len(a) + 1
    /\ \A i \in 1 .. Len(a) : b[i] = a[i]
    /\ b[Len(b)] = "0"
\* digits_apart: b is a plus digits.
DigitsApart(a, b) ==
    /\ Len(a) <= Len(b)
    /\ \A i \in 1 .. Len(a) : b[i] = a[i]
    /\ \A i \in Len(a) + 1 .. Len(b) : b[i] \in Digit
PrefixesApart(f) ==
    \A x, y \in DOMAIN f.ca :
        f.ca[x].prefix # f.ca[y].prefix
            => ~DigitsApart(f.ca[x].prefix, f.ca[y].prefix)

\* "The one rejected layout": an issuing key on a token under a root key that
\* is not.  [pkcs11] is there exactly when a key needs it.
OnToken(f) == {s \in Sections(f) : s.backend = "pkcs11"}
BackendsOk(f) ==
    /\ OnToken(f) # {} => f.ca["root"] \in OnToken(f) /\ f.module # None
    /\ OnToken(f) = {} => f.module = None /\ f.label = None

\* Every token-held CA has a label, no other has one, and a default is used.
LabelsOk(f) ==
    /\ \A s \in Sections(f) : IF s \in OnToken(f) THEN Label(f, s) # None
                              ELSE s.label = None
    /\ f.label # None => \E s \in OnToken(f) : s.label = None

\* load succeeds; an unknown key is an error where the file is materialized.
Accepted(f) ==
    /\ f.wellFormed /\ "root" \in DOMAIN f.ca /\ Purposes(f) # {}
    /\ LifetimesOk(f) /\ ProfilesOk(f)
    /\ NamesDistinct(f) /\ ProfilesOwned(f) /\ PrefixesApart(f)
    /\ BackendsOk(f) /\ LabelsOk(f)
Materializes(f) == Accepted(f) /\ ~f.unknown

-----------------------------------------------------------------------------
\* What the file says is what the store is created with: a number outside int
\* is refused, not read as another one.
NumbersAreTheFiles(f) ==
    Accepted(f) => \A x \in DOMAIN f.ca : /\ Loaded(f, x).days = f.ca[x].days
                                          /\ Loaded(f, x).eeDays = f.ca[x].eeDays
=============================================================================
