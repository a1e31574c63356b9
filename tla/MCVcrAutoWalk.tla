--------------------------- MODULE MCVcrAutoWalk ---------------------------
(* A small instance of VcrAutoWalk for TLC: the provider "ollama" with two   *)
(* keys, "router" with one and "local" with none.                            *)
EXTENDS VcrAutoWalk, TLC

CONSTANTS call, stream, lease

MCProviders == {"ollama", "router", "local"}

MCKeysOf == "ollama" :> {"o1", "o2"} @@ "router" :> {"r1"} @@ "local" :> {}

MCKeys == {"o1", "o2", "r1"}

MCShelf == call   :> <<"router", "ollama">>
        @@ stream :> <<"ollama", "local">>
        @@ lease  :> <<"router", "local">>
=============================================================================
