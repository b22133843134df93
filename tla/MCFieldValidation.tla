-------------------------- MODULE MCFieldValidation --------------------------
(* A small instance of FieldValidation for TLC: two items whose codes may   *)
(* be letters or look like the id of either.                                *)
EXTENDS FieldValidation

MCCodes == {<<"t">>, <<"T">>, <<"1">>, <<"2">>}
MCIsoDates == {<<"1", "-">>, <<"2">>}
=============================================================================
