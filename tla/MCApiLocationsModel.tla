------------------------ MODULE MCApiLocationsModel ------------------------
(* Values of the constants of ApiLocationsModel for model checking. *)
EXTENDS ApiLocationsModel, TLC

\* One city alone, then at another address beside a second city, and a city
\* without a ping host beside a static IP.
MCLists == {
    [cities |-> "g1" :> "b", pinged |-> {"b"}],
    [cities |-> "g1" :> "a" @@ "g2" :> "b", pinged |-> {"a", "b"}],
    [cities |-> "g1" :> "a", pinged |-> {"b"}]}
=============================================================================
