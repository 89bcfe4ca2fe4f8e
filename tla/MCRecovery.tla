----------------------------- MODULE MCRecovery -----------------------------
(* DBRecovery instantiated for TLC.                                        *)
EXTENDS DBRecovery

Opt(create, exists, reuse) ==
  [create_if_missing |-> create, error_if_exists |-> exists,
   paranoid_checks |-> TRUE, reuse_logs |-> reuse]

(* An existing database, opened with and without reuse_logs.               *)
ExistingOptions == {Opt(FALSE, FALSE, TRUE), Opt(FALSE, FALSE, FALSE)}

(* All combinations of the options that Recover looks at.                  *)
AllOptions == [create_if_missing : BOOLEAN, error_if_exists : BOOLEAN,
               paranoid_checks : BOOLEAN, reuse_logs : BOOLEAN]

(* Every way to come upon a missing database, and every way to open one.   *)
FreshOptions == {o \in AllOptions : o.error_if_exists =>
                   ~o.create_if_missing /\ o.paranoid_checks /\ ~o.reuse_logs}

(* An existing database, opened with paranoid_checks off.                  *)
CarelessOptions == {[Opt(FALSE, FALSE, FALSE) EXCEPT !.paranoid_checks = FALSE]}

(* The options the tests create a database with.                           *)
CreateOptions == {Opt(TRUE, FALSE, FALSE)}

=============================================================================
