------------------------- MODULE MCResourceCleaning -------------------------
(* Servers and resources for the run of ResourceCleaning. *)
EXTENDS ResourceCleaning, TLC

\* One server for topics, two for indices.
FewServers ==
    [kind \in {"postgres", "kafka", "elasticsearch"} |->
        CASE kind = "postgres" -> <<>>
          [] kind = "kafka" -> <<"kafka1">>
          [] OTHER -> <<"es1", "es2">>]

FewHomes == "topic" :> "kafka1" @@ "_topic" :> "kafka1" @@ "index" :> "es2"
FewNames == "topic" :> "impossible" @@ "_topic" :> "leftOut" @@ "index" :> "stamp"
=============================================================================
