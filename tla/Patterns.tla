------------------------------- MODULE Patterns -------------------------------
(* The registered patterns: how long the bytes are that an instance must     *)
(* show, and the windows in them that hold its state.  The bytes themselves  *)
(* are left out.  An exact pattern is its whole script; an anchored one is   *)
(* the head the windows lie in.                                              *)
EXTENDS Detectors

W(field, offset, len) == Window(field, offset, len)

opensilver_ownable ==
    << W("owner_pubkey", 2, 32), W("has_pending", 35, 1),
       W("pending_owner_pubkey", 37, 32) >>

opensilver_multisig ==
    << W("threshold", 2, 8), W("signer_pubkey_1", 11, 32),
       W("signer_pubkey_2", 44, 32), W("signer_pubkey_3", 77, 32) >>

opensilver_timelock ==
    << W("owner_pubkey", 2, 32), W("beneficiary_pubkey", 35, 32),
       W("unlock_time", 68, 8), W("soft_cancel", 77, 1) >>

opensilver_vault ==
    << W("owner_pubkey", 2, 32), W("has_pending", 35, 1),
       W("pending_owner_pubkey", 37, 32), W("threshold", 70, 8),
       W("signer_pubkey_1", 79, 32), W("signer_pubkey_2", 112, 32),
       W("signer_pubkey_3", 145, 32), W("unlock_time", 178, 8),
       W("beneficiary_pubkey", 187, 32) >>

opensilver_escrow_bilateral ==
    << W("buyer_pubkey", 2, 32), W("seller_pubkey", 35, 32),
       W("arbiter_hash", 68, 32), W("timeout", 101, 8) >>

opensilver_escrow_milestone ==
    << W("buyer_pubkey", 2, 32), W("seller_pubkey", 35, 32),
       W("arbiter_hash", 68, 32), W("total_milestones", 101, 8),
       W("completed_milestones", 110, 8), W("timeout", 119, 8) >>

opensilver_streaming_payment ==
    << W("sender_pubkey", 2, 32), W("recipient_pubkey", 35, 32),
       W("rate_per_claim", 68, 8), W("total_allowance", 77, 8),
       W("remaining_allowance", 86, 8), W("period", 95, 8),
       W("next_release_time", 104, 8) >>

opensilver_vesting ==
    << W("beneficiary_pubkey", 2, 32), W("admin_pubkey", 35, 32),
       W("total_allocation", 68, 8), W("claimed_amount", 77, 8),
       W("cliff_time", 86, 8), W("period", 95, 8),
       W("release_per_period", 104, 8), W("revocable", 113, 1) >>

opensilver_dead_mans_switch ==
    << W("owner_pubkey", 2, 32), W("fallback_pubkey", 35, 32),
       W("timeout_age", 68, 8), W("last_ping_age", 77, 8) >>

opensilver_social_recovery ==
    << W("owner_pubkey", 2, 32), W("has_pending_owner", 35, 1),
       W("pending_owner_pubkey", 37, 32), W("guardian_threshold", 70, 8),
       W("guardian_pubkey_1", 79, 32), W("guardian_pubkey_2", 112, 32),
       W("guardian_pubkey_3", 145, 32), W("activation_time", 178, 8),
       W("recovery_delay", 187, 8) >>

opensilver_atomic_swap_htlc ==
    << W("recipient_pubkey", 2, 32), W("refunder_pubkey", 35, 32),
       W("secret_hash", 68, 32), W("timeout", 101, 8) >>

opensilver_freelance_payroll ==
    << W("client_pubkey", 2, 32), W("worker_pubkey", 35, 32),
       W("arbiter_hash", 68, 32), W("timeout", 101, 8) >>

kcc20_asset ==
    << W("owner_identifier", 2, 32), W("identifier_type", 35, 1),
       W("amount", 37, 8), W("is_minter", 46, 1) >>

kcc20_ownable_controller ==
    << W("admin_pubkey", 2, 32), W("has_pending_admin", 35, 1),
       W("pending_admin_pubkey", 37, 32), W("kcc20_covenant_id", 70, 32),
       W("initialized", 103, 1) >>

kcc20_pausable_controller ==
    << W("kcc20_covenant_id", 2, 32), W("paused", 35, 1),
       W("initialized", 37, 1) >>

kcc20_capped_controller ==
    << W("kcc20_covenant_id", 2, 32), W("total_cap", 35, 8),
       W("remaining_allowance", 44, 8), W("initialized", 53, 1) >>

kcc20_vesting_controller ==
    << W("total_allocation", 2, 8), W("minted_amount", 11, 8),
       W("cliff_time", 20, 8), W("period", 29, 8),
       W("release_per_period", 38, 8), W("kcc20_covenant_id", 47, 32),
       W("initialized", 80, 1) >>

-------------------------------------------------------------------------------
Entry(kind, exact, length, windows) ==
    [kind |-> kind, exact |-> exact, length |-> length, windows |-> windows]

Registered ==
    << Entry("OpenSilverOwnable", TRUE, 420, opensilver_ownable),
       Entry("OpenSilverMultisig", TRUE, 876, opensilver_multisig),
       Entry("OpenSilverTimeLock", TRUE, 368, opensilver_timelock),
       Entry("OpenSilverVault", TRUE, 2190, opensilver_vault),
       Entry("OpenSilverEscrowBilateral", TRUE, 362, opensilver_escrow_bilateral),
       Entry("OpenSilverEscrowMilestone", TRUE, 732, opensilver_escrow_milestone),
       Entry("OpenSilverStreamingPayment", TRUE, 800, opensilver_streaming_payment),
       Entry("OpenSilverVesting", TRUE, 873, opensilver_vesting),
       Entry("OpenSilverDeadMansSwitch", TRUE, 454, opensilver_dead_mans_switch),
       Entry("OpenSilverSocialRecovery", TRUE, 1260, opensilver_social_recovery),
       Entry("OpenSilverAtomicSwapHTLC", TRUE, 250, opensilver_atomic_swap_htlc),
       Entry("OpenSilverFreelancePayroll", TRUE, 453, opensilver_freelance_payroll),
       Entry("KCC20Asset", FALSE, 64, kcc20_asset),
       Entry("KCC20OwnableController", FALSE, 212, kcc20_ownable_controller),
       Entry("KCC20PausableController", FALSE, 137, kcc20_pausable_controller),
       Entry("KCC20CappedController", FALSE, 186, kcc20_capped_controller),
       Entry("KCC20VestingController", FALSE, 287, kcc20_vesting_controller) >>

\* The state slot starts at byte 1, every field behind a one-byte push prefix.
PushPrefixed(windows) ==
    /\ windows[1].offset = 2
    /\ \A i \in 2..Len(windows) :
        windows[i].offset = windows[i - 1].offset + windows[i - 1].len + 1
===============================================================================
