---------------------------- MODULE EncryptClient ----------------------------
(***************************************************************************)
(* backend/services/encrypt_client.py, in the mode it is in: values are    *)
(* kept in the process, each under a fresh account, the n-th of which is   *)
(* called n.  Nothing is ever removed.                                     *)
(***************************************************************************)
EXTENDS Integers, Sequences

VARIABLES
    encrypting,         \* settings.encrypt_program_id is set
    encryptedValues     \* _encrypted_values: the value under each account

encryptVars == <<encrypting, encryptedValues>>

EncryptInit == encrypting \in BOOLEAN /\ encryptedValues = <<>>

(* Mutant: both values are kept under the same account.                    *)
EncryptUnderOne(confidence, riskScore) ==
    /\ encryptedValues' = IF encrypting THEN Append(encryptedValues, riskScore)
                                        ELSE encryptedValues
    /\ UNCHANGED encrypting

(* encrypt_decision_metadata, if it is enabled: two calls of encrypt_value, *)
(* which does not suspend.                                                 *)
EncryptDecision(confidence, riskScore) ==
    /\ encryptedValues' = IF encrypting
                            THEN encryptedValues \o <<confidence, riskScore>>
                            ELSE encryptedValues
    /\ UNCHANGED encrypting

(* request_decryption of an account                                        *)
Decryption(account) == encryptedValues[account]
=============================================================================
