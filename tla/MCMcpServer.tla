---------------------------- MODULE MCMcpServer ----------------------------
(***************************************************************************)
(* TLC instance of McpServer.  Its initial states are two kinds of states    *)
(* the server reaches: sessions, two calls open at a time, of any tool, when *)
(* mdok.toml is not edited any more; and policies, one document call at a    *)
(* time, the other answered, any mdok.toml, two edits, two hosts, the        *)
(* patterns of one host and of all, and paths out of the project with a      *)
(* configuration of their own or with none.                                  *)
(***************************************************************************)
EXTENDS McpServer

MCMatching == [p \in Patterns |-> IF p = "*" THEN Hosts ELSE {p}]
MCClientLists == {[allow |-> {"a"}, deny |-> {}], [allow |-> {"*"}, deny |-> {"a"}]}
MCForeign == {{}, {"a"}}

Sessions == config = {"a"} /\ operator = config /\ edits = MaxEdits
            /\ call = [c \in Calls |-> Call("none", "none", FALSE, {}, {}, "none")]
Policies == edits = 0 /\ operator = OperatorPolicy(config)
            /\ \E k \in Calls :
                  call = [c \in Calls |-> IF c = k THEN Call("none", "none", FALSE, {}, {}, "none")
                                          ELSE Call("answered", "version", FALSE, {}, {}, "ok")]

MCInit ==
    /\ config \in Lists \cup {Invalid}
    /\ server = "serving"
    /\ child = [c \in Calls |-> Child("none", {}, {}, {})]
    /\ command = [c \in Calls |-> "none"]
    /\ worker = [c \in Calls |-> "none"]
    /\ request = [c \in Calls |-> [host |-> None, sent |-> FALSE]]
    /\ Sessions \/ Policies

MCSpec == MCInit /\ [][Next]_vars /\ Fairness
=============================================================================
