CONSTANTS
    st1 = st1
    st2 = st2
    bssid = bssid
    Stations <- MCStations
    BSSID <- bssid
SPECIFICATION Spec
INVARIANT RespondsOnlyToCompleteRequests
