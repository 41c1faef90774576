----------------------------- MODULE MCTagImport -----------------------------
(* Two stored spellings of one release, "v1" and "1", and a later "2"; tags   *)
(* of both releases.                                                          *)
EXTENDS TagImport, TLC

MCVersions == {"v1", "1", "2"}
MCIdentity == "v1" :> "1" @@ "1" :> "1" @@ "2" :> "2"
MCSemver == "v1" :> 1 @@ "1" :> 1 @@ "2" :> 2
MCNameOrder == "1" :> 1 @@ "2" :> 2 @@ "v1" :> 3
MCTagDate == "1" :> 1 @@ "2" :> 1

=============================================================================
