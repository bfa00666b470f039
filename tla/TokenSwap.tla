------------------------------ MODULE TokenSwap ------------------------------
(***************************************************************************)
(* The swap that gave the canary's buyer its payment token                  *)
(* (scripts/swap-mainnet-canary-usdt0-to-usdc.mjs).  Nothing is kept of a   *)
(* command but the evidence it ends with, which refuses another execution.  *)
(* Amounts are in units of the one swap.                                    *)
(***************************************************************************)
EXTENDS Naturals, Sequences

CONSTANTS MaxCommands, Funds   \* bounds: commands, swaps the buyer's USDT0 would pay for

BoundsAreNumbers == {MaxCommands, Funds} \subseteq Nat

VARIABLES evidence,
          at, commands,
          before,      \* balances the command has read at its start
          usdt0, usdc, gas,
          allowance,   \* of the router: none, less than the amount, the amount
          price,       \* the pool still gives the minimum of the quote
          pool,        \* the buyer's transactions not mined yet, in the order of their nonces
          swaps,       \* mined and not reverted
          cut          \* commands that ended between the sending of a swap and the evidence
vars == <<evidence, at, commands, before, usdt0, usdc, gas, allowance, price, pool, swaps, cut>>
chain == <<usdt0, usdc, gas, allowance, price, pool, swaps>>

Init == /\ evidence = FALSE /\ at = "off" /\ commands = 0 /\ before = [usdt0 |-> 0, usdc |-> 0]
        /\ usdt0 \in 0..Funds /\ usdc = 0 /\ gas \in BOOLEAN /\ allowance \in {"none", "less", "exact"}
        /\ price = TRUE /\ pool = <<>> /\ swaps = 0 /\ cut = 0

\* The quote and the balances; a swap with evidence is not made again.
Start ==
  /\ at = "off" /\ commands < MaxCommands /\ commands' = commands + 1
  /\ before' = [usdt0 |-> usdt0, usdc |-> usdc]
  /\ at' = IF price /\ usdt0 >= 1 /\ ~evidence THEN "gas" ELSE "off"
  /\ UNCHANGED <<evidence, chain, cut>>

Send(step) ==
  /\ pool' = Append(pool, step) /\ at' = step
  /\ UNCHANGED <<evidence, commands, before, usdt0, usdc, gas, allowance, price, swaps, cut>>
Goes(there) == at' = there /\ UNCHANGED <<evidence, commands, before, chain, cut>>

\* Gas comes of the deployer's account, which does not wait for the buyer's nonces.
TopUp == /\ at = "gas" /\ gas' = TRUE /\ at' = "allowance"
         /\ UNCHANGED <<evidence, commands, before, usdt0, usdc, allowance, price, pool, swaps, cut>>
ResetAllowance == /\ at = "allowance"
                  /\ IF allowance = "less" THEN Send("reset sent") ELSE Goes("approve")
Approve == /\ at = "approve"
           /\ IF allowance # "exact" THEN Send("approve sent") ELSE Goes("swap")
\* The swap is simulated before it is sent.
Swaps == usdt0 >= 1 /\ allowance = "exact" /\ price
Swap == at = "swap" /\ Swaps /\ Send("swap sent")

\* receipt: a command waits for the transaction it has sent, the last in the pool.
NextStep == CASE at = "reset sent" -> "approve" [] at = "approve sent" -> "swap" [] at = "swap sent" -> "check"
             [] OTHER -> at
Mined ==
  LET step == Head(pool)
      ok == step = "swap sent" => Swaps
      waits == Len(pool) = 1 /\ at = step
  IN /\ pool # <<>> /\ pool' = Tail(pool)
     /\ IF step = "swap sent" /\ ok
        THEN usdt0' = usdt0 - 1 /\ usdc' = usdc + 1 /\ allowance' = "none" /\ swaps' = swaps + 1
        ELSE /\ allowance' = (CASE step = "reset sent" -> "none" [] step = "approve sent" -> "exact"
                                [] OTHER -> allowance)
             /\ UNCHANGED <<usdt0, usdc, swaps>>
     /\ at' = IF waits THEN IF ok THEN NextStep ELSE "off" ELSE at
     /\ cut' = IF waits /\ ~ok THEN cut + 1 ELSE cut
     /\ UNCHANGED <<evidence, commands, before, gas, price>>
PriceMoves == /\ price' = ~price
              /\ UNCHANGED <<evidence, at, commands, before, usdt0, usdc, gas, allowance, pool, swaps, cut>>
\* Another use of what the swap has bought.
Spent == /\ usdc > 0 /\ usdc' = usdc - 1
         /\ UNCHANGED <<evidence, at, commands, before, usdt0, gas, allowance, price, pool, swaps, cut>>

\* The balances must have changed by this one swap, or the command fails.
Executed == before.usdt0 - usdt0 = 1 /\ usdc >= before.usdc + 1
Finish ==
  /\ at = "check" /\ at' = "off" /\ evidence' = (evidence \/ Executed)
  /\ cut' = IF Executed THEN cut ELSE cut + 1
  /\ UNCHANGED <<commands, before, chain>>
\* The command is stopped, or a call of its fails.
Stop ==
  /\ at # "off" /\ at' = "off" /\ cut' = IF at \in {"swap sent", "check"} THEN cut + 1 ELSE cut
  /\ UNCHANGED <<evidence, commands, before, chain>>

Next == \/ Start \/ TopUp \/ ResetAllowance \/ Approve \/ Swap \/ Mined \/ PriceMoves \/ Spent
        \/ Finish \/ Stop
Spec == Init /\ [][Next]_vars

-----------------------------------------------------------------------------
TypeOK ==
  /\ evidence \in BOOLEAN /\ gas \in BOOLEAN /\ price \in BOOLEAN /\ commands \in 0..MaxCommands
  /\ at \in {"off", "gas", "allowance", "reset sent", "approve", "approve sent", "swap", "swap sent", "check"}
  /\ usdt0 \in 0..Funds /\ usdc \in 0..swaps /\ allowance \in {"none", "less", "exact"}
  /\ pool \in Seq({"reset sent", "approve sent", "swap sent"}) /\ cut \in 0..commands

\* The swap is made again only after a command that was cut off, or found other
\* balances than its own, after it had sent its transaction; and the evidence is
\* of a swap (swap-mainnet-canary-usdt0-to-usdc.mjs:120-123, 139-149).
SwappedAgainOnlyAfterACut == swaps <= 1 + cut /\ (evidence => swaps >= 1)
=============================================================================
