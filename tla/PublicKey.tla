------------------------------- MODULE PublicKey -------------------------------
(***************************************************************************)
(* What the wallet and its connection share: the connection asks the       *)
(* wallet for its public key (WalletService.getPublicKey), and has no      *)
(* other way to know whether it is unlocked.                               *)
(***************************************************************************)
CONSTANTS
  Keys,  \* private keys, which stand for their public keys
  None

VARIABLES
  publicKey  \* _publicKey and _address: None while the wallet is locked
===============================================================================
