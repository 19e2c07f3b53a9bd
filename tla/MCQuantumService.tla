-------------------------- MODULE MCQuantumService --------------------------
\* Rates of three assets: 6 cycles, 8 indices, 16 basis states.
EXTENDS QuantumService

CONSTANTS a, b, c
Assets == <<a, b, c>>

Edges(S) == {e \in S \X S : e[1] # e[2]}
All == Edges({a, b, c})

\* The cycles a-b-c and a-c-b, each with its rotations.
Right == {<<a, b>>, <<b, c>>, <<c, a>>}
Left == {<<a, c>>, <<c, b>>, <<b, a>>}
Raised(D, E) == [e \in D |-> IF e \in E THEN 1 ELSE -1]

\* Nothing gains, but two edges of a cycle alone would.
NoGain == [e \in All |-> IF e = <<c, a>> THEN -2
                          ELSE IF e \in Right THEN 1 ELSE -1]

Both == [e \in All |-> 1]

\* One direction gains, with an edge missing.
OneWay == Raised(All \ {<<b, a>>}, Right)

\* Nothing gains; one direction; both directions; a round trip of two assets
\* only; there are but two assets.
Tables == {
  NoGain, OneWay, Both,
  [e \in All |-> IF e \in {<<a, b>>, <<b, a>>} THEN 1 ELSE -2],
  Raised(Edges({a, b}), {<<a, b>>})}

Drawn == {OneWay}

CONSTANT r1
OneRequest == {r1}
=============================================================================
