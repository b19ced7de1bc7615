------------------------------ MODULE MCEagle ------------------------------
(***************************************************************************)
(* A small instance of Eagle: the tokens and the base model of             *)
(* MCGeneration, trees of two drafts a node and three levels, of which     *)
(* four nodes are verified.                                                *)
(***************************************************************************)
EXTENDS Eagle

MCToken == 0 .. 2
MCStop == {0}

MCPredict(tokens) ==
  LET sum[i \in 0 .. Len(tokens)] ==
        IF i = 0 THEN Len(tokens) ELSE sum[i - 1] + (i + 1) * tokens[i]
  IN  sum[Len(tokens)] % 3

MCPrompts == { <<1, 2>>, <<2, 1, 1>>, <<1, 1, 2, 1>> }
MCAnswers == { [tokens |-> <<1, 2>>, scores |-> <<-1, -2>>],
               [tokens |-> <<2, 0>>, scores |-> <<-1, -4>>] }
=============================================================================
