-------------------------- MODULE ApplicationStatus --------------------------
(***************************************************************************)
(* The CRM states of a customer application and the transition tables of   *)
(* src/db/models.py.  "NONE" is the state of an application that has not   *)
(* been submitted: the code writes it as from_status = None in the first   *)
(* audit-log entry.                                                        *)
(***************************************************************************)

CustomerApplicationStatus ==
  {"APPLIED", "UNDER_REVIEW", "APPROVED", "REJECTED", "CALLED",
   "AWAITING_PAYMENT", "PAID", "IN_PRODUCTION", "QC_REVIEW", "QC_PASSED",
   "QC_FAILED", "ESCALATED", "RETRY", "CANCELLED",
   "READY_FOR_REVIEW_CALL", "COMPLETED"}

Status == CustomerApplicationStatus \union {"NONE"}

\* The moves the admin's status endpoint accepts, as pairs <<from, to>>.
VALID_TRANSITIONS ==
     {"APPLIED"}               \X {"UNDER_REVIEW", "REJECTED"}
  \union {"UNDER_REVIEW"}      \X {"APPROVED", "REJECTED"}
  \union {"APPROVED"}          \X {"CALLED", "UNDER_REVIEW"}
  \union {"CALLED"}            \X {"AWAITING_PAYMENT", "APPROVED"}
  \union {"AWAITING_PAYMENT"}  \X {"PAID", "IN_PRODUCTION"}
  \union {"PAID"}              \X {"IN_PRODUCTION"}
  \union {"IN_PRODUCTION"}     \X {"QC_REVIEW", "PAID"}
  \union {"QC_REVIEW"}         \X {"QC_PASSED", "QC_FAILED",
                                   "READY_FOR_REVIEW_CALL", "IN_PRODUCTION"}
  \union {"QC_PASSED"}         \X {"READY_FOR_REVIEW_CALL", "QC_REVIEW"}
  \union {"QC_FAILED"}         \X {"IN_PRODUCTION", "ESCALATED"}
  \union {"ESCALATED"}         \X {"RETRY"}
  \union {"RETRY"}             \X {"IN_PRODUCTION"}
  \union {"READY_FOR_REVIEW_CALL"} \X {"COMPLETED", "QC_REVIEW"}
=============================================================================
