---------------------------- MODULE MCResidency ----------------------------
(* Instances of Residency for TLC.                                         *)
EXTENDS Residency, TLC

CONSTANTS t1, t2, t3, chat, big, image, video

KindOf == (chat :> "chat") @@ (big :> "chat") @@ (image :> "image") @@ (video :> "video")
MCKind == [m \in Models |-> KindOf[m]]

\* A streamed model fits beside an image pipeline, but not if it turns out
\* larger than its price.
MCPrice == [m \in Models |-> IF m \in Streaming THEN 3
                            ELSE IF Kind[m] = "image" THEN 1 ELSE 2]
MCExtra == [m \in Models |-> IF m \in Streaming THEN 1 ELSE 0]

CallsOf(n1, n2, n3) ==
  [t \in Threads |-> CASE t = t1 -> n1 [] t = t2 -> n2 [] OTHER -> n3]
LoadCalls == CallsOf(2, 1, 1)
UnloadCalls == CallsOf(1, 2, 1)
LiveCalls == CallsOf(2, 2, 2)
=============================================================================
