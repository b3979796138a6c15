SPECIFICATION Spec
CONSTANTS
    t1 = t1  t2 = t2  a1 = a1  a2 = a2
    Tab = {t1}
    Admin = {a1, a2}
    MaxMails = 2
INVARIANTS TypeOK AnswersNotices ShownAsReviewed ApprovedAppears
PROPERTY ApprovalStands
