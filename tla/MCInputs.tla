------------------------------ MODULE MCInputs ------------------------------
(* Small instances of the paths and the versions for model checking Inputs. *)
EXTENDS Inputs

(* Paths a, A, a-, a/a and one in the updater's directory, in the          *)
(* characters of ManifestPaths: "-" sorts before "/", so a- comes between  *)
(* a and a/a unless the separator is folded first.                         *)
MCPaths == {<<4>>, <<3>>, <<4, 1>>, <<4, 2, 4>>, <<5, 2, 4>>}

(* 0.0.9 and 0.1.0 with the identifiers 0, 9, 10, 1a, "-" and 01, which no *)
(* parsed version contains, in the characters of VersionOrder.             *)
MCCores == {<<0, 0, 9>>, <<0, 1, 0>>}
MCIdentifiers == {<<1>>, <<10>>, <<2, 1>>, <<2, 11>>, <<0>>, <<1, 2>>}
=============================================================================
