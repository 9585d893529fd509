SPECIFICATION CustodySpec
CONSTANTS
    fay = fay  acme = acme  bolt = bolt
    offer = offer  reoffer = reoffer  take = take  retake = retake  again = again  refuse = refuse  recall = recall  view = view
    mint = mint  remint = remint  approve = approve  reapprove = reapprove  deny = deny  poll = poll  repoll = repoll
    flag = flag  file = file  resume = resume  revoke = revoke  panic = panic
    Sponsors = {acme, bolt}
    Identities = {fay}
    Home <- CustodyHome
    Calls = {offer, take, view}
    Op <- CustodyOp
    By <- CustodyBy
    About <- CustodyAbout
    To <- CustodyTo
    Nobody = Nobody
    Term = 2
    MaxMoment = 4
PROPERTIES
    AcceptedStayAccepted
\* Every request may have been answered.
CHECK_DEADLOCK FALSE
