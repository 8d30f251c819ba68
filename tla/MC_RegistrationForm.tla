-------------------------- MODULE MC_RegistrationForm --------------------------
(* Small instances of RegistrationForm.                                    *)
EXTENDS RegistrationForm

MCLength == [t \in Texts |-> 8]
MCKinds == [t \in Texts |-> IF t = "Str0ng!x" THEN AllKinds ELSE {"lower"}]

(* A strong password, a weak one, and white space only.                    *)
MCPasswords == {[text |-> "Str0ng!x", pad |-> 0], [text |-> "weakling", pad |-> 0],
                [text |-> Blank, pad |-> 8]}

(* The defaults of the environment.                                        *)
MCPolicy == [min |-> 8, max |-> 128, needs |-> AllKinds]

=============================================================================
