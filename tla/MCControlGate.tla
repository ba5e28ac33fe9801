--------------------------- MODULE MCControlGate ---------------------------
(* The node nt with the children na (designated) and nb; nu below na.      *)
EXTENDS ControlGate
CONSTANTS nt, na, nb, nu

Seed == {na}
Req(kind, child) == [kind |-> kind, child |-> child]
Dialled ==
  { [origin |-> nt, version |-> 9, life |-> 1, req |-> Req("AdminDesignate", nb)],
    [origin |-> nt, version |-> 9, life |-> 1, req |-> Req("AdminDetachChild", na)],
    [origin |-> na, version |-> 7, life |-> 3, req |-> Req("Query", nb)],
    [origin |-> na, version |-> 7, life |-> 1, req |-> Req("AdminIssue", nb)],
    [origin |-> nb, version |-> 8, life |-> 1, req |-> Req("Capabilities", nb)] }
Relayed ==
  { [path |-> <<nu, na>>, req |-> Req("AdminIssue", nb)],
    [path |-> <<na>>, req |-> Req("AdminRevoke", na)],
    [path |-> <<nu, na>>, req |-> Req("AdminDesignate", nb)] }
=============================================================================
