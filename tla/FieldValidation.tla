--------------------------- MODULE FieldValidation ---------------------------
(***************************************************************************)
(* One field of a request: what create_draft and update_working_values     *)
(* store for a given text (app/services/field_validation.py), what         *)
(* validate_submit makes of the stored value later, and the dictionary of  *)
(* a catalog field, whose items are administered meanwhile.                *)
(*                                                                         *)
(* A text is a sequence of characters, because the rules tell apart blank, *)
(* sign, decimal digit, the digits that str.isdigit accepts and int does   *)
(* not (a superscript two, "sup2"), and letters in either case.            *)
(***************************************************************************)
EXTENDS Naturals, Sequences, SequencesExt

CONSTANTS
  Items,     \* ids of the dictionary's items, positive one-digit numbers
  Codes,     \* texts that may be codes of items
  IsoDates,  \* texts that date.fromisoformat accepts
  Null,      \* SQL NULL
  NoRow,     \* no request_field_values row
  Refused,   \* VALIDATION
  Failed,    \* an exception other than AppError
  MaxLen     \* bound: length of a text

ASSUME ItemsAssumption == Items \subseteq 1..9
ASSUME LengthAssumption == MaxLen \in Nat

VARIABLES
  kind,      \* data_type of the field
  required,
  items,     \* dictionary_items: code, and active
  stored,    \* request_field_values.value
  chosen,    \* the items that a catalog value named when it was saved
  answer     \* of the last call

definition == <<kind, required>>
vars == <<definition, items, stored, chosen, answer>>

Kinds == {"text", "date", "number", "boolean", "catalog"}
Decimals == <<"1", "2", "3", "4", "5", "6", "7", "8", "9">>
Digits == ToSet(Decimals) \cup {"0"}
Chars == {" ", "0", "1", "2", "sup2", "+", "-", "t", "T"}
Texts == BoundedSeq(Chars, MaxLen)

\* What stands for no value or an error is no answer and no item's name.
ASSUME MarkersAssumption ==
  \A x \in {Null, NoRow, Refused, Failed} :
    x \notin {"saved", "accepted", "none"} /\ \A i \in Items : x # <<Decimals[i]>>
-----------------------------------------------------------------------------
(* Texts.                                                                  *)

Strip(s) ==
  LET solid == {i \in DOMAIN s : s[i] # " "} IN
  IF solid = {} THEN <<>> ELSE SubSeq(s, Min(solid), Max(solid))

Lower(s) == [i \in DOMAIN s |-> IF s[i] = "T" THEN "t" ELSE s[i]]

\* Mutation: only the empty text is blank.
IsEmpty(s) == s = <<>>
IsBlank(s) == Strip(s) = <<>>

Body(s) == IF s # <<>> /\ s[1] \in {"+", "-"} THEN Tail(s) ELSE s

\* _is_integer_string: an optional sign, then str.isdigit.
IsIntegerString(s) ==
  Body(s) # <<>> /\ \A i \in DOMAIN Body(s) : Body(s)[i] \in Digits \cup {"sup2"}

\* What int() does: it accepts decimal digits only, and leading zeros.
IntAccepts(s) == \A i \in DOMAIN Body(s) : Body(s)[i] \in Digits
IntIs(s, n) ==
  LET b == Body(s) IN
  /\ s[1] # "-"
  /\ Last(b) = Decimals[n]
  /\ \A i \in DOMAIN Front(b) : b[i] = "0"
-----------------------------------------------------------------------------
(* Catalog values.                                                         *)

ById(s) == {i \in Items : items[i].active /\ IsIntegerString(s) /\ IntIs(s, i)}
ByCode(s) == {i \in Items : items[i].active /\ items[i].code = s}

\* Mutation: the code takes precedence.
FindByCodeFirst(s) == IF ByCode(s) # {} THEN ByCode(s) ELSE ById(s)
Find(s) == IF ById(s) # {} THEN ById(s) ELSE ByCode(s)

\* Mutation: the value is stored as it was given.
AsGiven(s, i) == s
\* str(item.id)
ItemName(s, i) == <<Decimals[i]>>

ValidateCatalog(s) ==
  IF IsIntegerString(s) /\ ~IntAccepts(s) THEN Failed
  ELSE IF Find(s) = {} THEN Refused
  ELSE ItemName(s, CHOOSE i \in Find(s) : TRUE)

AcceptIf(condition, value) == IF condition THEN value ELSE Refused

\* validate_field_value: the canonical text, Refused or Failed.
Validate(raw) ==
  LET s == Strip(raw) IN
  CASE kind = "text" -> raw
    [] kind = "date" -> AcceptIf(s \in IsoDates, s)
    [] kind = "number" -> AcceptIf(IsIntegerString(s), s)
    [] kind = "boolean" -> AcceptIf(Lower(s) = <<"t">>, Lower(s))  \* "t" is for "true"
    [] OTHER -> ValidateCatalog(s)
-----------------------------------------------------------------------------
(* The calls.                                                              *)

Written(result) == IF result \in {Refused, Failed} THEN stored ELSE result

\* create_draft and update_working_values: a blank text is stored as NULL.
Save(raw) ==
  LET result == IF IsBlank(raw) THEN Null ELSE Validate(raw) IN
  /\ stored' = Written(result)
  /\ chosen' = IF result \in {Refused, Failed} THEN chosen
                ELSE IF kind = "catalog" /\ result # Null THEN Find(Strip(raw)) ELSE {}
  /\ answer' = IF result \in {Refused, Failed} THEN result ELSE "saved"
  /\ UNCHANGED <<definition, items>>

\* validate_submit: checks the stored value and writes nothing.
Submit ==
  /\ answer' = IF stored \in {NoRow, Null}
               THEN (IF required THEN Refused ELSE "accepted")
               ELSE IF Validate(stored) \in {Refused, Failed} THEN Validate(stored)
               ELSE "accepted"
  /\ UNCHANGED <<definition, items, stored, chosen>>

CodesAreUnique(its) == \A i, j \in Items : its[i].code = its[j].code => i = j

\* An item is renamed, deactivated or activated, outside the service.
Administer(i, code, active) ==
  /\ items' = [items EXCEPT ![i] = [code |-> code, active |-> active]]
  /\ CodesAreUnique(items')
  /\ answer' = "none"
  /\ UNCHANGED <<definition, stored, chosen>>

Init ==
  /\ kind \in Kinds
  /\ required \in BOOLEAN
  /\ items \in {its \in [Items -> [code: Codes, active: {TRUE}]] : CodesAreUnique(its)}
  /\ stored = NoRow
  /\ chosen = {}
  /\ answer = "none"

Next ==
  \/ \E raw \in Texts : Save(raw)
  \/ Submit
  \/ \E i \in Items, code \in Codes, active \in BOOLEAN : Administer(i, code, active)

Spec == Init /\ [][Next]_vars
-----------------------------------------------------------------------------
(* Properties.                                                             *)

\* What is saved is canonical: validated again, as at submission, it is accepted
\* as it is and, in a catalog, names the item that the given text named.
SavedIsCanonical ==
  [][answer' = "saved" /\ stored' # Null =>
       /\ Validate(stored') = stored'
       /\ kind = "catalog" => Find(stored') = chosen']_vars

\* A stored text is never blank, so validate_submit finds a value missing exactly
\* when its row is missing or NULL.
StoredIsPresent == stored \notin {Null, NoRow} => Strip(stored) # <<>>

\* An accepted submission of a catalog value is one of the item that was chosen,
\* however the items were renamed since and whatever numbers their codes are,
\* unless that item was deactivated and its id is the code of another one.
ChosenItemKept ==
  answer = "accepted" /\ chosen # {} =>
    \/ Find(stored) = chosen
    \/ (\A i \in chosen : ~items[i].active) /\ ByCode(stored) # {}
=============================================================================
