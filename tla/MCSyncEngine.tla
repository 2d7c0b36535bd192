---------------------------- MODULE MCSyncEngine ----------------------------
(***************************************************************************)
(* A player and a later sale to it, a player that the server refuses, and  *)
(* a session with its attendance, which names the refused player.          *)
(***************************************************************************)
EXTENDS SyncEngine, TLC

CONSTANTS player, sale, session, attendance, refused, t1, t2

\* The dependent action comes with its producers or later.
RefusalActs == {session, refused, attendance}
RefusalCaptures == {{session, refused}, {attendance}}

MixedActs == RefusalActs \cup {player, sale}
MixedCaptures ==
    {{player, refused, session}, {player, refused, session, attendance}, {sale}, {attendance}}

OneTab == {t1}
TwoTabs == {t1, t2}
TabSymmetry == Permutations(TwoTabs)

MCKind ==
    [a \in Acts |-> IF a \in {player, refused} THEN "player"
                    ELSE IF a = session THEN "session" ELSE "other"]

MCPlayerOf ==
    [a \in Acts |-> IF a = attendance THEN refused
                    ELSE IF a = sale THEN player ELSE None]

MCSessionOf == [a \in Acts |-> IF a = attendance THEN session ELSE None]

Order == <<player, session, attendance, refused, sale>>

MCCreatedAt == [a \in Acts |-> CHOOSE i \in 1 .. 5 : Order[i] = a]

MCInvalid == {refused} \cap Acts
=============================================================================
