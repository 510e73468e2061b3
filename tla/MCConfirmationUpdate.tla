------------------------- MODULE MCConfirmationUpdate -------------------------
\* A confirmation, a cancellation, an edit of the tags and the WMS's hand-off.
EXTENDS ConfirmationUpdate

CONSTANTS confirm, cancel, tags, print

Targets == [r \in Requests |-> CASE r = confirm -> CONFIRMED
                                 [] r = cancel -> 6
                                 [] r = tags -> NoStatus
                                 [] OTHER -> WAITING_FOR_PRINTING]
=============================================================================
