----------------------------- MODULE SignerMethods -----------------------------
(***************************************************************************)
(* The vocabulary Branding and Signing Layer share: the methods of         *)
(* constants.js and the event that ends each of them.                      *)
(***************************************************************************)

\* The methods of constants.js; a suffix names an option that selects another
\* control path of the same handler.
AllMethods ==
  {"unknownMethod", "getVersion", "clearRecoverySession",
   "createCredential", "createCredential.defer", "getPublicKey",
   "getPublicKey.challenge", "revealPrivateKey", "importPrivateKey",
   "createRecoveryData", "recoverKey", "recoverKey.rebind",
   "signDigest", "encryptAES256", "decryptAES256",
   "executeBatch", "executeBatch.challenge"}

Creations == {"createCredential", "createCredential.defer"}

\* Fault: the method's name is posted where its event is due.
SuccessNamed(m) == m

Success(m) == CASE m \in Creations -> "CredentialCreated"
                [] m = "unknownMethod" -> "InvalidRequest"
                [] m = "getVersion" -> "Version"
                [] m = "clearRecoverySession" -> "RecoverySessionCleared"
                [] m = "getPublicKey" -> "PublicKey"
                [] m = "getPublicKey.challenge" -> "ChallengeSigned"
                [] m = "revealPrivateKey" -> "PrivateKeyRevealed"
                [] m \in {"importPrivateKey", "recoverKey"} -> "RecoverySessionStarted"
                [] m = "recoverKey.rebind" -> "RecoverySessionCleared"
                [] m = "createRecoveryData" -> "RecoveryDataCreated"
                [] m = "signDigest" -> "DigestSigned"
                [] m = "encryptAES256" -> "AES256Encrypted"
                [] m = "decryptAES256" -> "AES256Decrypted"
                [] OTHER -> "BatchExecuted"

Failures == {"SignDenied", "NotAllowed", "InvalidRequest"}
Replies  == Failures \cup
  {"Version", "RecoverySessionCleared", "CredentialCreated", "PublicKey",
   "ChallengeSigned", "PrivateKeyRevealed", "RecoverySessionStarted",
   "RecoveryDataCreated", "DigestSigned", "AES256Encrypted", "AES256Decrypted",
   "BatchExecuted"}

\* The event after which the method's keys are known to the Branding Layer:
\* these never succeed without it ...
AlwaysDerive == AllMethods \ {"unknownMethod", "getVersion", "clearRecoverySession",
                              "createCredential.defer", "signDigest",
                              "encryptAES256", "decryptAES256"}
\* ... and these post it only when they had to ask for the passkey.
MayDerive == AlwaysDerive \cup {"signDigest", "encryptAES256", "decryptAES256"}

\* KeyDerived and the answer are posted in the same turn of the event loop.
AtOnce == {"createCredential", "getPublicKey", "getPublicKey.challenge",
           "importPrivateKey", "recoverKey"}
=============================================================================
