----------------------------- MODULE TokenStore -----------------------------
(***************************************************************************)
(* What the KV cache promises, with no block in sight: each sequence has a *)
(* memory of its own, that grows by the tokens it forwards and that may be *)
(* dropped as a whole, to be computed again.  Every forward pass reads the *)
(* whole memory of each of its sequences: its own tokens, all of them, in  *)
(* order.                                                                  *)
(***************************************************************************)
EXTENDS Integers, Sequences

CONSTANT Seqs

VARIABLES
    size,    \* number of tokens each sequence has in its memory
    reads    \* what the last forward pass read of each sequence

Tokens(s, n) == [i \in 1..n |-> <<s, i - 1>>]

Init ==
    /\ size = [s \in Seqs |-> 0]
    /\ reads = [s \in Seqs |-> <<>>]

\* One step of the model, over the sequences whose memory grows
Forward ==
    /\ size' \in [Seqs -> Nat]
    /\ \A s \in Seqs : size'[s] >= size[s]
    /\ reads' = [s \in Seqs |-> IF size'[s] > size[s] THEN Tokens(s, size'[s])
                                                      ELSE <<>>]

Drop(s) == size' = [size EXCEPT ![s] = 0] /\ UNCHANGED reads

\* The results are taken away.
Rest == reads' = [s \in Seqs |-> <<>>] /\ UNCHANGED size

Next == Forward \/ Rest \/ \E s \in Seqs : Drop(s)

Spec == Init /\ [][Next]_<<size, reads>>
=============================================================================
