------------------------------ MODULE MCServer ------------------------------
(***************************************************************************)
(* The components that share no state with each other, checked side by     *)
(* side: a behaviour chooses at the start the one that runs.               *)
(***************************************************************************)
EXTENDS
    ActionEffect, OAuth, McpHttp, CommandManager, ChildOutput,
    NativeReplay, FirstStart

VARIABLE focus

vars == <<focus, creationVars, effectVars, oauthVars, mcpVars, managerVars, streamVars,
          tunnelVars, replayVars, firstVars>>

(* A direct proof: its step is appended to memory, its file replaced.      *)
MCSlots == <<[file |-> "proof_steps", append |-> TRUE], [file |-> "proof", append |-> FALSE]>>

(* The text of a command: a first byte that the head of a capture keeps    *)
(* without the rest of its character meets continuation bytes of another in*)
(* the tail, which it takes or refuses.                                    *)
MCText == <<1, 3, 0, 0, 3, 0, 0, 2, 0>>
MCCharWidth == [o \in 0..(StreamEnd - 1) |-> MCText[o + 1]]
MCRefuses == {<<1, 6>>}

Init ==
    /\ focus \in {"starts", "effects", "oauth", "mcp", "commands", "stream",
                  "tunnel", "replay", "opening"}
    /\ EffectInit
    /\ OAuthInit
    /\ McpInit
    /\ ManagerInit
    /\ StreamInit
    /\ TunnelInit
    /\ ReplayInit
    /\ FirstInit
    /\ focus # "effects" => spent = 0
    /\ focus # "opening" => firstVersion = 0
    /\ CreationInit
    /\ focus # "starts" => receipt = [k \in CreationKeys |-> NoReceipt]

Runs(c) == focus = c /\ UNCHANGED focus

(* Every component but c keeps its state.                                  *)
Rest(c) ==
    /\ IF c = "starts" THEN TRUE ELSE UNCHANGED creationVars
    /\ IF c = "effects" THEN TRUE ELSE UNCHANGED effectVars
    /\ IF c = "oauth" THEN TRUE ELSE UNCHANGED oauthVars
    /\ IF c = "mcp" THEN TRUE ELSE UNCHANGED mcpVars
    /\ IF c = "commands" THEN TRUE ELSE UNCHANGED managerVars
    /\ IF c = "stream" THEN TRUE ELSE UNCHANGED streamVars
    /\ IF c = "tunnel" THEN TRUE ELSE UNCHANGED tunnelVars
    /\ IF c = "replay" THEN TRUE ELSE UNCHANGED replayVars
    /\ IF c = "opening" THEN TRUE ELSE UNCHANGED firstVars

Next ==
    \/ Runs("starts") /\ CreationNext /\ Rest("starts")
    \/ Runs("effects") /\ EffectNext /\ Rest("effects")
    \/ Runs("oauth") /\ OAuthNext /\ Rest("oauth")
    \/ Runs("mcp") /\ McpNext /\ Rest("mcp")
    \/ Runs("commands") /\ ManagerNext /\ Rest("commands")
    \/ Runs("stream") /\ StreamNext /\ Rest("stream")
    \/ Runs("tunnel") /\ TunnelNext /\ Rest("tunnel")
    \/ Runs("replay") /\ ReplayNext /\ Rest("replay")
    \/ Runs("opening") /\ FirstNext /\ Rest("opening")

Spec == Init /\ [][Next]_vars
=============================================================================
