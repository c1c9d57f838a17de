------------------------------ MODULE MCInject ------------------------------
(* Two threads and six functions: markers of each kind, a by-name source and *)
(* a self parameter, a signature that needs reordered defaults, and forward  *)
(* references beside a marker that shows, one that does not, and none.       *)
EXTENDS Inject, TLC

CONSTANTS t1, t2, marked, mixed, byname, forward, hidden, plain

P(kind, default, marker) ==
    [self |-> FALSE, kind |-> kind, default |-> default, marker |-> marker]
Self == [P("positional", "required", "none") EXCEPT !.self = TRUE]
ParamsOf == [f \in Functions |->
    CASE f = marked -> <<P("positional", "required", "whole"), P("positional", "required", "none"),
                         P("keyword", "injected", "ref")>>
      [] f = mixed -> <<P("positional", "required", "none"), P("positional", "own", "attr"),
                        P("keyword", "required", "none")>>
      [] f = byname -> <<Self, P("positional", "required", "whole"),
                         P("positional", "required", "none"), P("positional", "own", "none"),
                         P("keyword", "required", "none")>>
      [] f = hidden -> <<P("positional", "required", "attr"), P("keyword", "injected", "whole")>>
      [] f = plain -> <<P("positional", "required", "none"), P("positional", "injected", "none")>>
      [] OTHER -> <<P("positional", "injected", "whole")>>]

\* The threads are interchangeable.
ThreadSymmetry == Permutations(Threads)
=============================================================================
