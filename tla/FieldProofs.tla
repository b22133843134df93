---------------------------- MODULE FieldProofs ----------------------------
(* What is proved of FieldValidation: the canonical form of a value is a    *)
(* fixed point of the validation, for texts of any length, any dictionary   *)
(* and any data type, and a stored value goes on naming the chosen item.    *)
EXTENDS FieldValidation, SequenceTheorems, WellFoundedInduction, TLAPS

\* A set of numbers that is not empty has a least element, and a greatest if bounded.
LEMMA Least ==
  ASSUME NEW S, S \subseteq Nat, S # {}
  PROVE  \E x \in S : \A y \in S : x <= y
<1>1. IsWellFoundedOn(OpToRel(<, Nat), Nat)
  BY NatLessThanWellFounded, Zenon
<1>2. PICK R : R = OpToRel(<, Nat)
  BY Zenon
<1>3. IsWellFoundedOn(R, Nat)
  BY <1>1, <1>2, Zenon
<1>4. PICK x \in S : \A y \in S : ~(<<y, x>> \in R)
  BY <1>3, WFMin
<1>5. R = {ss \in Nat \X Nat : ss[1] < ss[2]}
  BY <1>2 DEF OpToRel
<1>6. ASSUME NEW y \in S
      PROVE  x <= y
  <2>1. x \in Nat /\ y \in Nat /\ <<y, x>> \in Nat \X Nat
    OBVIOUS
  <2>2. ~(y < x)
    BY <1>4, <1>5, <2>1
  <2> QED
    BY <2>1, <2>2
<1> QED
  BY <1>6

\* A set of positions has a first and a last one.
LEMMA MinMax ==
  ASSUME NEW n \in Nat, NEW S, S \subseteq 1..n, S # {}
  PROVE  /\ Min(S) \in S /\ \A y \in S : Min(S) <= y
         /\ Max(S) \in S /\ \A y \in S : y <= Max(S)
<1> S \subseteq Nat /\ \A i \in S : i \in Nat /\ n - i \in Nat
  OBVIOUS
<1>1. \E x \in S : \A y \in S : x <= y
  BY Least
<1>2. Min(S) \in S /\ \A y \in S : Min(S) <= y
  BY <1>1, Zenon DEF Min
<1>3. \E x \in S : \A y \in S : x >= y
  <2> DEFINE R == {n - i : i \in S}
  <2>1. R \subseteq Nat /\ R # {}
    OBVIOUS
  <2> HIDE DEF R
  <2>2. PICK m \in R : \A k \in R : m <= k
    BY <2>1, Least
  <2>3. PICK x \in S : m = n - x
    BY DEF R
  <2>4. ASSUME NEW y \in S
        PROVE  x >= y
    <3>1. n - y \in R
      BY DEF R
    <3>2. n - x <= n - y
      BY <2>2, <2>3, <3>1
    <3> QED
      BY <3>2
  <2> QED
    BY <2>4
<1>4. Max(S) \in S /\ \A y \in S : Max(S) >= y
  BY <1>3, Zenon DEF Max
<1> QED
  BY <1>2, <1>4
-----------------------------------------------------------------------------
(* Texts.                                                                  *)

Blank == " "

\* The characters of s that are not blank.
Solid(s) == {i \in DOMAIN s : s[i] # Blank}

\* What str.strip leaves: from the first solid character to the last.
LEMMA StripDef == \A s : Strip(s) = IF Solid(s) = {} THEN <<>> ELSE SubSeq(s, Min(Solid(s)), Max(Solid(s)))
BY DEF Strip, Solid, Blank

\* A text that begins and ends with a solid character is stripped already.
LEMMA Stripped ==
  ASSUME NEW S, NEW s \in Seq(S), s # <<>>, s[1] # Blank, s[Len(s)] # Blank
  PROVE  Strip(s) = s
<1>1. Len(s) \in Nat /\ Len(s) >= 1 /\ DOMAIN s = 1..Len(s)
  OBVIOUS
<1>2. Solid(s) \subseteq 1..Len(s) /\ 1 \in Solid(s) /\ Len(s) \in Solid(s)
  BY <1>1 DEF Solid
<1>3. Min(Solid(s)) = 1 /\ Max(Solid(s)) = Len(s)
  <2>1. PICK T : T = Solid(s)
    OBVIOUS
  <2>2. /\ Min(T) \in T /\ \A y \in T : Min(T) <= y
        /\ Max(T) \in T /\ \A y \in T : y <= Max(T)
    BY <1>1, <1>2, <2>1, MinMax
  <2> QED
    BY <1>1, <1>2, <2>1, <2>2
<1> QED
  BY <1>2, <1>3, StripDef, SubSeqFull

\* Stripping leaves nothing, or a text that begins and ends with a solid character.
LEMMA StripFacts ==
  ASSUME NEW S, NEW s \in Seq(S)
  PROVE  /\ Strip(s) \in Seq(S)
         /\ Strip(Strip(s)) = Strip(s)
<1>1. CASE Solid(s) = {}
  <2>1. Strip(s) = <<>>
    BY <1>1, StripDef
  <2>2. Solid(<<>>) = {}
    BY DEF Solid
  <2> QED
    BY <2>1, <2>2, StripDef, EmptySeq
<1>2. CASE Solid(s) # {}
  <2>1. Len(s) \in Nat /\ DOMAIN s = 1..Len(s)
    BY LenProperties
  <2>2. PICK T : T = Solid(s)
    OBVIOUS
  <2>3. PICK a, b : a = Min(T) /\ b = Max(T)
    OBVIOUS
  <2>4. T \subseteq 1..Len(s) /\ T # {}
    BY <1>2, <2>1, <2>2 DEF Solid
  <2>5. a \in T /\ b \in T /\ a <= b /\ a \in Int /\ b \in Int
    <3>1. /\ Min(T) \in T /\ \A y \in T : Min(T) <= y
          /\ Max(T) \in T /\ \A y \in T : y <= Max(T)
      BY <2>1, <2>4, MinMax
    <3>2. a \in T /\ b \in T /\ a <= b
      BY <2>3, <3>1
    <3> QED
      BY <2>1, <2>4, <3>2
  <2>6. PICK t : t = SubSeq(s, a, b)
    OBVIOUS
  <2>7. \A i \in a..b : s[i] \in S
    BY <2>1, <2>4, <2>5, ElementOfSeq
  <2>8. /\ t \in Seq(S) /\ Len(t) = b - a + 1
        /\ \A i \in 1..(b - a + 1) : t[i] = s[a + i - 1]
    BY <2>5, <2>6, <2>7, SubSeqProperties
  <2>9. t # <<>> /\ t[1] = s[a] /\ t[Len(t)] = s[b]
    BY <2>5, <2>8, EmptySeq
  <2>10. Strip(t) = t
    BY <2>2, <2>5, <2>8, <2>9, Stripped DEF Solid
  <2>11. Strip(s) = t
    BY <1>2, <2>2, <2>3, <2>6, StripDef
  <2> QED
    BY <2>8, <2>10, <2>11
<1> QED
  BY <1>1, <1>2

\* A text of one solid character.
LEMMA OneCharacter ==
  ASSUME NEW c, c # Blank
  PROVE  /\ Strip(<<c>>) = <<c>> /\ <<c>> # <<>>
         /\ c \notin {"+", "-"} => Body(<<c>>) = <<c>>
<1>1. /\ <<c>> \in Seq({c}) /\ <<c>> # <<>> /\ <<c>>[1] = c /\ Len(<<c>>) = 1
  OBVIOUS
<1> QED
  BY <1>1, Stripped DEF Body
-----------------------------------------------------------------------------
(* Catalog values.                                                         *)

Name(i) == <<Decimals[i]>>

\* The ids of the items are different decimal digits.
LEMMA DecimalFacts ==
  /\ \A i \in 1..9 : Decimals[i] \in Digits /\ Decimals[i] # Blank /\ Decimals[i] \notin {"+", "-"}
  /\ \A i, j \in 1..9 : Decimals[i] = Decimals[j] => i = j
<1>1. \A i \in 1..9 : i = 1 \/ i = 2 \/ i = 3 \/ i = 4 \/ i = 5 \/ i = 6 \/ i = 7 \/ i = 8 \/ i = 9
  OBVIOUS
<1>2. ASSUME NEW i \in 1..9
      PROVE  Decimals[i] \in Digits
  <2>1. i \in DOMAIN Decimals
    BY DEF Decimals
  <2> QED
    BY <2>1 DEF Digits, ToSet
<1>3. ASSUME NEW i \in 1..9
      PROVE  Decimals[i] # Blank /\ Decimals[i] \notin {"+", "-"}
  <2>1. Decimals[i] \in {"1", "2", "3", "4", "5", "6", "7", "8", "9"}
    BY <1>1 DEF Decimals
  <2> QED
    BY <2>1 DEF Blank
<1>4. \A i, j \in 1..9 : Decimals[i] = Decimals[j] => i = j
  BY <1>1 DEF Decimals
<1> QED
  BY <1>2, <1>3, <1>4

\* An item's name is a canonical integer, and names that item alone.
LEMMA NameFacts ==
  ASSUME NEW i \in Items
  PROVE  /\ Strip(Name(i)) = Name(i) /\ Name(i) # <<>>
         /\ IsIntegerString(Name(i)) /\ IntAccepts(Name(i))
         /\ \A j \in Items : IntIs(Name(i), j) <=> j = i
<1>1. PICK d : d = Decimals[i]
  OBVIOUS
<1>2. d \in Digits /\ d # Blank /\ d \notin {"+", "-"}
  BY <1>1, ItemsAssumption, DecimalFacts
<1>3. Strip(<<d>>) = <<d>> /\ <<d>> # <<>> /\ Body(<<d>>) = <<d>>
  BY <1>2, OneCharacter DEF Blank
<1>4. DOMAIN <<d>> = {1} /\ <<d>>[1] = d /\ Last(<<d>>) = d
  BY DEF Last
<1>5. DOMAIN Front(<<d>>) = {}
  BY DEF Front
<1>6. IsIntegerString(<<d>>) /\ IntAccepts(<<d>>)
  BY <1>2, <1>3, <1>4 DEF IsIntegerString, IntAccepts
<1>7. ASSUME NEW j \in Items
      PROVE  IntIs(<<d>>, j) <=> j = i
  BY <1>1, <1>2, <1>3, <1>4, <1>5, ItemsAssumption, DecimalFacts DEF IntIs
<1> QED
  BY <1>1, <1>3, <1>6, <1>7 DEF Name

\* The lookup by id finds the active item of that name.
LEMMA NameFinds ==
  ASSUME NEW i \in Items
  PROVE  ById(Name(i)) = IF items[i].active THEN {i} ELSE {}
BY NameFacts DEF ById

\* A lookup finds one item at most, and an active one.
LEMMA FoundItem ==
  ASSUME CodesAreUnique(items), NEW s, Find(s) # {}
  PROVE  \E i \in Items : Find(s) = {i} /\ items[i].active
<1>1. \A i, j \in Items : i \in ById(s) /\ j \in ById(s) => i = j
  BY ItemsAssumption, DecimalFacts DEF ById, IntIs
<1>2. \A i, j \in Items : i \in ByCode(s) /\ j \in ByCode(s) => i = j
  BY DEF ByCode, CodesAreUnique
<1>3. /\ ById(s) \subseteq Items /\ ByCode(s) \subseteq Items
      /\ \A i \in ById(s) \cup ByCode(s) : items[i].active
  BY DEF ById, ByCode
<1>4. PICK i \in Find(s) : TRUE
  OBVIOUS
<1>5. Find(s) = {i} /\ i \in Items /\ items[i].active
  BY <1>1, <1>2, <1>3, <1>4 DEF Find
<1> QED
  BY <1>5

\* A catalog value that is accepted is stored under the name of the one item found,
\* which that name finds again.
LEMMA CatalogCanonical ==
  ASSUME CodesAreUnique(items), NEW s, ValidateCatalog(s) \notin {Refused, Failed}
  PROVE  \E i \in Items :
           /\ ValidateCatalog(s) = Name(i)
           /\ Find(s) = {i} /\ Find(Name(i)) = {i} /\ ValidateCatalog(Name(i)) = Name(i)
<1>1. Find(s) # {} /\ ValidateCatalog(s) = ItemName(s, CHOOSE i \in Find(s) : TRUE)
  BY DEF ValidateCatalog
<1>2. PICK i \in Items : Find(s) = {i} /\ items[i].active
  BY <1>1, FoundItem
<1>3. ValidateCatalog(s) = Name(i)
  BY <1>1, <1>2 DEF ItemName, Name
<1>4. Find(Name(i)) = {i}
  BY <1>2, NameFinds DEF Find
<1>5. ValidateCatalog(Name(i)) = Name(i)
  BY <1>4, NameFacts DEF ValidateCatalog, ItemName, Name
<1> QED
  BY <1>2, <1>3, <1>4, <1>5
-----------------------------------------------------------------------------
(* Validation.                                                             *)

\* The canonical form of "true", whose one character stands for the word.
LEMMA TrueIsCanonical ==
  Strip(<<"t">>) = <<"t">> /\ Lower(<<"t">>) = <<"t">> /\ <<"t">> # <<>>
<1>1. Strip(<<"t">>) = <<"t">> /\ <<"t">> # <<>>
  BY OneCharacter DEF Blank
<1>2. PICK s : s = <<"t">>
  OBVIOUS
<1>3. s \in Seq({"t"}) /\ Len(s) = 1 /\ s[1] = "t" /\ DOMAIN s = 1..1
  BY <1>2
<1>4. Lower(s) = [i \in 1..1 |-> "t"]
  BY <1>3 DEF Lower
<1>5. [i \in 1..1 |-> "t"] = <<"t">>
  OBVIOUS
<1> QED
  BY <1>1, <1>2, <1>4, <1>5

\* A text is a sequence of characters.
LEMMA TextIsSeq == ASSUME NEW raw \in Texts PROVE raw \in Seq(Chars)
<1>1. PICK n \in 0..MaxLen : raw \in [1..n -> Chars]
  BY DEF Texts, BoundedSeq, SeqOf
<1>2. n \in Nat
  BY LengthAssumption
<1> QED
  BY <1>1, <1>2, SeqDef

\* What the validation makes of a text that is not blank is not blank, is accepted as
\* it is and, in a catalog, names the item that the text named.
LEMMA ValidCanonical ==
  ASSUME CodesAreUnique(items), kind \in Kinds, NEW raw \in Texts, ~IsBlank(raw),
         NEW v, v = Validate(raw), v \notin {Refused, Failed}
  PROVE  /\ Strip(v) # <<>> /\ Validate(v) = v
         /\ kind = "catalog" =>
              \E i \in Items : v = Name(i) /\ Find(Strip(raw)) = {i} /\ Find(Strip(v)) = {i} /\ Find(v) = {i}
<1>1. PICK s : s = Strip(raw)
  OBVIOUS
<1>2. s # <<>> /\ Strip(s) = s
  BY <1>1, TextIsSeq, StripFacts DEF IsBlank
<1>3. CASE kind = "text"
  BY <1>1, <1>2, <1>3 DEF Validate
<1>4. CASE kind = "date"
  <2>1. v = AcceptIf(s \in IsoDates, s)
    BY <1>1, <1>4 DEF Validate
  <2>2. v = s /\ s \in IsoDates
    BY <2>1 DEF AcceptIf
  <2> QED
    BY <1>2, <1>4, <2>2 DEF Validate, AcceptIf
<1>5. CASE kind = "number"
  <2>1. v = AcceptIf(IsIntegerString(s), s)
    BY <1>1, <1>5 DEF Validate
  <2>2. v = s /\ IsIntegerString(s)
    BY <2>1 DEF AcceptIf
  <2> QED
    BY <1>2, <1>5, <2>2 DEF Validate, AcceptIf
<1>6. CASE kind = "boolean"
  <2>1. v = AcceptIf(Lower(s) = <<"t">>, Lower(s))
    BY <1>1, <1>6 DEF Validate
  <2>2. v = <<"t">>
    BY <2>1 DEF AcceptIf
  <2> QED
    BY <1>6, <2>2, TrueIsCanonical DEF Validate, AcceptIf
<1>7. CASE kind = "catalog"
  <2>1. v = ValidateCatalog(s)
    BY <1>1, <1>7 DEF Validate
  <2>2. PICK i \in Items :
          /\ v = Name(i)
          /\ Find(s) = {i} /\ Find(Name(i)) = {i} /\ ValidateCatalog(Name(i)) = Name(i)
    BY <2>1, CatalogCanonical
  <2>3. Strip(v) = v /\ v # <<>>
    BY <2>2, NameFacts
  <2>4. Validate(v) = v
    BY <1>7, <2>2, <2>3 DEF Validate
  <2> QED
    BY <1>1, <2>2, <2>3, <2>4
<1> QED
  BY <1>3, <1>4, <1>5, <1>6, <1>7 DEF Kinds
-----------------------------------------------------------------------------
(* The inductive invariant: a stored text is not blank, and what was chosen *)
(* in a catalog is the one item whose name is stored.                       *)

FieldInv ==
  /\ kind \in Kinds
  /\ CodesAreUnique(items)
  /\ StoredIsPresent
  /\ chosen # {} => kind = "catalog" /\ \E i \in Items : chosen = {i} /\ stored = Name(i)
  /\ ChosenItemKept

\* What a save does.
LEMMA Saves ==
  ASSUME FieldInv, NEW raw \in Texts, Save(raw)
  PROVE  /\ UNCHANGED <<kind, items>>
         /\ answer' # "accepted"
         /\ IF answer' = "saved"
            THEN IF IsBlank(raw) THEN stored' = Null /\ chosen' = {}
                 ELSE /\ Strip(stored') # <<>> /\ Validate(stored') = stored'
                      /\ IF kind = "catalog"
                         THEN \E i \in Items :
                                stored' = Name(i) /\ chosen' = {i} /\ Find(stored') = {i}
                         ELSE chosen' = {}
            ELSE UNCHANGED <<stored, chosen>>
<1>1. PICK v : v = IF IsBlank(raw) THEN Null ELSE Validate(raw)
  OBVIOUS
<1>2. /\ stored' = Written(v)
      /\ chosen' = IF v \in {Refused, Failed} THEN chosen
                   ELSE IF kind = "catalog" /\ v # Null THEN Find(Strip(raw)) ELSE {}
      /\ answer' = IF v \in {Refused, Failed} THEN v ELSE "saved"
      /\ UNCHANGED <<kind, items>>
  BY <1>1 DEF Save, definition
<1>3. CASE v \in {Refused, Failed}
  BY <1>2, <1>3, MarkersAssumption DEF Written
<1>4. CASE v \notin {Refused, Failed} /\ IsBlank(raw)
  BY <1>1, <1>2, <1>4 DEF Written
<1>5. CASE v \notin {Refused, Failed} /\ ~IsBlank(raw)
  <2>1. v = Validate(raw) /\ stored' = v /\ answer' = "saved"
    BY <1>1, <1>2, <1>5 DEF Written
  <2>2. /\ Strip(v) # <<>> /\ Validate(v) = v
        /\ kind = "catalog" =>
             \E i \in Items : v = Name(i) /\ Find(Strip(raw)) = {i} /\ Find(Strip(v)) = {i} /\ Find(v) = {i}
    BY <1>5, <2>1, ValidCanonical DEF FieldInv
  <2>3. CASE kind = "catalog"
    <3>1. PICK i \in Items : v = Name(i) /\ Find(Strip(raw)) = {i} /\ Find(v) = {i}
      BY <2>2, <2>3
    <3>2. v # Null
      BY <3>1, MarkersAssumption DEF Name
    <3>3. chosen' = {i}
      BY <1>2, <1>5, <2>3, <3>1, <3>2
    <3> QED
      BY <1>2, <1>5, <2>1, <2>2, <2>3, <3>1, <3>3
  <2>4. CASE kind # "catalog"
    <3>1. chosen' = {}
      BY <1>2, <1>5, <2>4
    <3> QED
      BY <1>2, <1>5, <2>1, <2>2, <2>4, <3>1
  <2> QED
    BY <2>3, <2>4
<1> QED
  BY <1>3, <1>4, <1>5

\* An accepted submission is one of the item that was chosen.
LEMMA Submits ==
  ASSUME FieldInv, Submit
  PROVE  FieldInv'
<1>1. UNCHANGED <<kind, items, stored, chosen>>
  BY DEF Submit, definition
<1>2. ASSUME answer' = "accepted", chosen # {}
      PROVE  \/ Find(stored) = chosen
             \/ (\A i \in chosen : ~items[i].active) /\ ByCode(stored) # {}
  <2>1. PICK i \in Items : kind = "catalog" /\ chosen = {i} /\ stored = Name(i)
    BY <1>2 DEF FieldInv
  <2>2. stored \notin {NoRow, Null}
    BY <2>1, MarkersAssumption DEF Name
  <2>3. Validate(stored) \notin {Refused, Failed}
    BY <1>2, <2>2, MarkersAssumption DEF Submit
  <2>4. Validate(stored) = ValidateCatalog(stored)
    BY <2>1, NameFacts DEF Validate
  <2>5. Find(stored) # {}
    BY <2>3, <2>4 DEF ValidateCatalog
  <2>6. CASE items[i].active
    BY <2>1, <2>6, NameFinds DEF Find
  <2>7. CASE ~items[i].active
    BY <2>1, <2>5, <2>7, NameFinds DEF Find
  <2> QED
    BY <2>6, <2>7
<1>3. ChosenItemKept'
  BY <1>1, <1>2 DEF ChosenItemKept, Find, ById, ByCode
<1> QED
  BY <1>1, <1>3 DEF FieldInv, StoredIsPresent, CodesAreUnique

\* Every operation on the field keeps the invariant.
LEMMA FieldInvNext == FieldInv /\ [Next]_vars => FieldInv'
<1> SUFFICES ASSUME FieldInv, [Next]_vars
             PROVE  FieldInv'
  OBVIOUS
<1>1. ASSUME NEW raw \in Texts, Save(raw)
      PROVE  FieldInv'
  <2>1. /\ UNCHANGED <<kind, items>> /\ answer' # "accepted"
        /\ stored' \in {Null, stored} \/ Strip(stored') # <<>>
        /\ \/ UNCHANGED <<stored, chosen>>
           \/ chosen' = {}
           \/ kind = "catalog" /\ \E i \in Items : stored' = Name(i) /\ chosen' = {i}
    BY <1>1, Saves
  <2>2. StoredIsPresent'
    BY <2>1 DEF FieldInv, StoredIsPresent
  <2>3. ChosenItemKept'
    BY <2>1 DEF ChosenItemKept
  <2>4. chosen' # {} => kind' = "catalog" /\ \E i \in Items : chosen' = {i} /\ stored' = Name(i)
    BY <2>1 DEF FieldInv
  <2> QED
    BY <2>1, <2>2, <2>3, <2>4 DEF FieldInv, CodesAreUnique
<1>2. ASSUME NEW i \in Items, NEW code \in Codes, NEW active \in BOOLEAN, Administer(i, code, active)
      PROVE  FieldInv'
  <2>1. UNCHANGED <<kind, stored, chosen>> /\ CodesAreUnique(items') /\ answer' = "none"
    BY <1>2 DEF Administer, definition
  <2>2. CodesAreUnique(items)'
    BY <2>1 DEF CodesAreUnique
  <2> QED
    BY <2>1, <2>2 DEF FieldInv, StoredIsPresent, ChosenItemKept
<1>3. ASSUME UNCHANGED vars
      PROVE  FieldInv'
  BY <1>3 DEF FieldInv, StoredIsPresent, ChosenItemKept, CodesAreUnique, Find, ById, ByCode, vars, definition
<1> QED
  BY <1>1, <1>2, <1>3, Submits DEF Next

\* A stored text is not blank, and what was chosen in a catalog is the one item whose
\* name is stored (validate_field_value and _validate_catalog_value).
THEOREM FieldInvariant == Spec => []FieldInv
<1>1. Init => FieldInv
  BY DEF Init, FieldInv, StoredIsPresent, ChosenItemKept
<1> QED
  BY <1>1, FieldInvNext, PTL DEF Spec

\* A stored text is never blank, of whatever type the field is and however long the text
\* was: the submission's test for a missing value agrees with what was stored.
THEOREM PresentIsSolid == Spec => []StoredIsPresent
BY FieldInvariant, PTL DEF FieldInv

\* A submission accepts a catalog value as the item that was chosen, whatever the codes are
\* and however the items were renamed since; as another one only when the chosen item is
\* inactive and its id is the other one's code (_find_catalog_item, field_validation.py).
THEOREM ChoiceKept == Spec => []ChosenItemKept
BY FieldInvariant, PTL DEF FieldInv

CanonicalSave ==
  answer' = "saved" /\ stored' # Null =>
    /\ Validate(stored') = stored'
    /\ kind = "catalog" => Find(stored') = chosen'

\* The validation is idempotent: what a save stores, validate_field_value returns as it is.
THEOREM SavesAreCanonical == Spec => SavedIsCanonical
<1>1. FieldInv /\ [Next]_vars => [CanonicalSave]_vars
  <2> SUFFICES ASSUME FieldInv, Next, answer' = "saved", stored' # Null
               PROVE  Validate(stored') = stored' /\ (kind = "catalog" => Find(stored') = chosen')
    BY DEF CanonicalSave
  <2>1. \A i \in Items, code \in Codes, active \in BOOLEAN : ~Administer(i, code, active)
    BY DEF Administer
  <2>2. ~Submit
    BY MarkersAssumption DEF Submit
  <2>3. PICK raw \in Texts : Save(raw)
    BY <2>1, <2>2 DEF Next
  <2> QED
    BY <2>3, Saves
<1> QED
  BY <1>1, FieldInvariant, PTL DEF Spec, SavedIsCanonical, CanonicalSave
=============================================================================
