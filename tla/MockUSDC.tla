------------------------------ MODULE MockUSDC ------------------------------
(***************************************************************************)
(* The payment token, contracts/MockUSDC.sol: an OpenZeppelin ERC20 whose  *)
(* owner mints and whose faucet lets anyone mint a fixed amount.  MockUSDC *)
(* itself defines mint() and faucet(); balances, allowances and ownership  *)
(* are inherited from OpenZeppelin, which is not part of the repository,   *)
(* and are modelled from how BlackRiverBroker.sol and the deploy scripts   *)
(* use them.                                                               *)
(*                                                                         *)
(* A call that reverts changes nothing, so it is not a step: the guard of  *)
(* an action is the conjunction of the require()s on its path.             *)
(***************************************************************************)
EXTENDS Naturals, FiniteSets

CONSTANTS
  Address,       \* every account, contracts included
  Zero,          \* address(0)
  Eoa,           \* the externally owned accounts, which send transactions
  Spenders,      \* accounts an approve() names; bounds the model
  Recipients,    \* accounts a transfer() or mint() names; bounds the model
  MaxUint,       \* type(uint256).max, scaled down
  FaucetAmount   \* what one faucet() call mints, in the same scale

\* Addresses are 20 bytes, award identifiers below 32: finitely many of each.
ASSUME TokenAssumption ==
  /\ IsFiniteSet(Address)
  /\ Zero \in Address
  /\ Eoa \subseteq Address \ {Zero}
  /\ Spenders \subseteq Address
  /\ Recipients \subseteq Address
  /\ MaxUint \in Nat
  /\ FaucetAmount \in Nat

VARIABLES
  balance,       \* ERC20._balances
  allowance,     \* ERC20._allowances, owner -> spender -> amount
  totalSupply,   \* ERC20._totalSupply
  tokenOwner     \* Ownable._owner of the token

tokenVars == <<balance, allowance, totalSupply, tokenOwner>>

Amount == 0 .. MaxUint

\* A balance is a natural number; that it also stays a uint256 follows from the
\* conservation of the supply, which _mint() bounds.
TokenTypeOK ==
  /\ balance \in [Address -> Nat]
  /\ allowance \in [Address -> [Address -> Amount]]
  /\ totalSupply \in Amount
  /\ tokenOwner \in Address

-----------------------------------------------------------------------------

\* ERC20._transfer: neither end may be address(0), the payer must hold value.
CanMove(from, to, value) ==
  /\ from # Zero
  /\ to # Zero
  /\ value <= balance[from]

\* ERC20._update takes before it gives, so that an account that pays itself
\* keeps its balance.
Moved(from, to, value) ==
  LET paid == [balance EXCEPT ![from] = @ - value]
  IN  [paid EXCEPT ![to] = @ + value]

\* ERC20._spendAllowance: the largest allowance is never reduced.
CanSpend(holder, spender, value) == value <= allowance[holder][spender]

Spent(holder, spender, value) ==
  IF allowance[holder][spender] = MaxUint
  THEN allowance
  ELSE [allowance EXCEPT ![holder][spender] = @ - value]

\* Wrong on purpose: the supply may overflow.
MintToUnchecked(to, value) ==
  /\ to # Zero
  /\ totalSupply' = totalSupply + value
  /\ balance' = [balance EXCEPT ![to] = @ + value]
  /\ totalSupply <= MaxUint
  /\ UNCHANGED <<allowance, tokenOwner>>

\* Wrong on purpose: the supply is not kept.
MintToUncounted(to, value) ==
  /\ to # Zero
  /\ totalSupply + value <= MaxUint
  /\ balance[to] + value <= MaxUint
  /\ balance' = [balance EXCEPT ![to] = @ + value]
  /\ UNCHANGED <<totalSupply, allowance, tokenOwner>>

\* ERC20._mint: address(0) is refused and the supply may not overflow.
MintTo(to, value) ==
  /\ to # Zero
  /\ totalSupply + value <= MaxUint
  /\ totalSupply' = totalSupply + value
  /\ balance' = [balance EXCEPT ![to] = @ + value]
  /\ UNCHANGED <<allowance, tokenOwner>>

-----------------------------------------------------------------------------

\* transfer(to, value) called by sender.
Transfer(sender, to, value) ==
  /\ CanMove(sender, to, value)
  /\ balance' = Moved(sender, to, value)
  /\ UNCHANGED <<allowance, totalSupply, tokenOwner>>

\* transferFrom(from, to, value) called by sender.
TransferFrom(sender, from, to, value) ==
  /\ CanSpend(from, sender, value)
  /\ CanMove(from, to, value)
  /\ allowance' = Spent(from, sender, value)
  /\ balance' = Moved(from, to, value)
  /\ UNCHANGED <<totalSupply, tokenOwner>>

\* Wrong on purpose: the two keys of the allowance are swapped.
ApproveSwapped(sender, spender, value) ==
  /\ spender # Zero
  /\ allowance' = [allowance EXCEPT ![spender][sender] = value]
  /\ UNCHANGED <<balance, totalSupply, tokenOwner>>

\* approve(spender, value) called by sender overwrites the allowance.
Approve(sender, spender, value) ==
  /\ spender # Zero
  /\ allowance' = [allowance EXCEPT ![sender][spender] = value]
  /\ UNCHANGED <<balance, totalSupply, tokenOwner>>

\* mint(to, value), onlyOwner.
Mint(sender, to, value) ==
  /\ sender = tokenOwner
  /\ MintTo(to, value)

\* faucet(): open to every caller.
Faucet(sender) == MintTo(sender, FaucetAmount)

\* Ownable.transferOwnership: address(0) is refused.
TransferTokenOwnership(sender, newOwner) ==
  /\ sender = tokenOwner
  /\ newOwner # Zero
  /\ tokenOwner' = newOwner
  /\ UNCHANGED <<balance, allowance, totalSupply>>

\* Ownable.renounceOwnership.
RenounceTokenOwnership(sender) ==
  /\ sender = tokenOwner
  /\ tokenOwner' = Zero
  /\ UNCHANGED <<balance, allowance, totalSupply>>

-----------------------------------------------------------------------------

\* The constructor runs in the deployer's transaction and mints nothing.
TokenInit(initialOwner) ==
  /\ balance = [a \in Address |-> 0]
  /\ allowance = [a \in Address |-> [b \in Address |-> 0]]
  /\ totalSupply = 0
  /\ tokenOwner = initialOwner

\* What the holders of keys may do to the token directly.
TokenNext ==
  \E sender \in Eoa :
    \/ Faucet(sender)
    \/ RenounceTokenOwnership(sender)
    \/ \E other \in Eoa : TransferTokenOwnership(sender, other)
    \/ \E value \in Amount :
         \/ \E to \in Recipients : Transfer(sender, to, value)
         \/ \E to \in Recipients : Mint(sender, to, value)
         \/ \E spender \in Spenders : Approve(sender, spender, value)
         \/ \E from \in Address, to \in Recipients :
              TransferFrom(sender, from, to, value)
=============================================================================
