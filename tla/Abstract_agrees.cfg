\* Three index spaces, eight heads, monomials of up to three factors.
SPECIFICATION Spec
CONSTANTS
    Metric <- MCMetric
    Heads <- MCHeads
    HeadLists <- MCHeadLists
    Prime = 9973
PROPERTIES CanonicalFormsDecide ComponentsFollowExpressions YoungSymmetriesAgree
