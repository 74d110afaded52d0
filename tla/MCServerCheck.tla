--------------------------- MODULE MCServerCheck ---------------------------
EXTENDS ServerCheck

CONSTANTS wInbox, wWork, wTwin, wBin, wRoot, bInbox, bWork, bTrash, m1, m2, m3

\* INBOX, a mailbox with two canonical twins, which are a Trash by its flag and
\* one by its name, and a mailbox that cannot be selected.
MCWireInfo ==
    [w \in Wire |->
        LET base == [path |-> w, canon |-> w, inbox |-> "no", role |-> "no",
                     named |-> "no", legacy |-> "no", select |-> TRUE]
        IN  CASE w = wInbox -> [base EXCEPT !.inbox = "INBOX"]
              [] w = wWork -> [base EXCEPT !.path = "work", !.canon = "WORK"]
              [] w = wTwin -> [base EXCEPT !.canon = "WORK", !.role = "trash"]
              [] w = wBin -> [base EXCEPT !.canon = "WORK", !.named = "trash"]
              [] w = wRoot -> [base EXCEPT !.select = FALSE]]

MCBoxInfo ==
    [b \in Box |->
        LET base == [path |-> b, canon |-> b, inbox |-> FALSE, role |-> "none"]
        IN  CASE b = bInbox -> [base EXCEPT !.inbox = TRUE]
              [] b = bWork -> [base EXCEPT !.path = "work", !.canon = "WORK"]
              [] b = bTrash -> [base EXCEPT !.role = "trash"]]

MCMirror == {<<bInbox, wInbox>>, <<bWork, wWork>>, <<bTrash, wTwin>>, <<bTrash, wBin>>}
MCPlan == <<bInbox, bWork, bTrash>>
MCOrder == <<wInbox, wWork, wTwin, wBin, wRoot>>
MCListings == {Wire, {wInbox, wWork}, {wInbox, wTwin, wBin, wRoot}}
MCMaxChanges == [sync |-> 1, new |-> 1]
MCInbox == <<bInbox, wInbox>>

\* m1 and m2 differ in their Message-ID only; m3 has none.
MCHeader == [m \in Mail |-> IF m = m3 THEN "h3" ELSE "h"]
MCRfcId == [m \in Mail |-> IF m = m3 THEN NoId ELSE m]
=============================================================================
