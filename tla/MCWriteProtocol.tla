-------------------------- MODULE MCWriteProtocol -------------------------
(* Commands of cli.py on two releases and an entry of the first.           *)
EXTENDS WriteProtocol, TLC

MCPlan ==
    "release.cancel" :> <<"release:1", "release:2">>
    @@ "entry.add" :> <<"entry:1/1", "release:1">>

\* finalize is one of the commands that run_command starts without a lock.
MCMixedPlan ==
    "release.update" :> <<"release:1">>
    @@ "release.cancel" :> <<"release:1", "release:2">>
    @@ "release.finalize" :> <<"release:1">>

=============================================================================
