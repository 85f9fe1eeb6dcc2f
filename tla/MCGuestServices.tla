--------------------------- MODULE MCGuestServices ---------------------------
(* The services on small instances. *)
EXTENDS GuestServices, TLC

\* Three messages, of two priorities.
TwoPriorities == [m \in KsMessages |-> IF m = 2 THEN 2 ELSE 1]

\* Every file imports from every other.
AllImports == [f \in MlFiles |-> MlFiles]

\* Two lists: one that draws and signals, with a label, and ends early; one that
\* waits, draws and runs into an opcode nobody knows.
Command(op, args) == [op |-> op, args |-> args]
Lists == {<<Command("Nop", <<>>), Command("BeginRenderPass", <<1>>), Command("Barrier", <<7, 8, 9>>),
            Command("SignalFence", <<1>>), Command("End", <<>>), Command("SignalFence", <<2>>)>>,
          <<Command("WaitFence", <<1>>), Command("SetViewport", <<1, 2, 3, 4, 5, 6>>),
            Command("DrawDirect", <<1, 2, 3, 4>>), Command("Bad", <<>>)>>}
=============================================================================
