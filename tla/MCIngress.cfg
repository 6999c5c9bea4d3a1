\* A width of 8 bits and a second of 4 units, so that small numbers overflow.
CONSTANTS
    id = id  adm = adm  assets = assets  api = api  wk = wk
    appjson = appjson  envfile = envfile  php = php  js = js
    dot = dot  dotdot = dotdot  clash = clash  long = long
    here = here  here6 = here6  edge = edge  lb = lb  junk = junk  Us = Us
    near = near  wide = wide  all = all
    happ = happ  pasted = pasted
    Empty = Empty  Blank = Blank  Nil = Nil
    Segment <- MCSegment
    Dot = dot
    DotDot = dotdot
    Dotted <- MCDotted
    Half = 128
    Second = 4
    Agent = {happ, pasted}
    Spelling <- MCSpelling
    Normal <- MCNormal
    Network = {near, wide, all}
    Covers <- MCCovers
    Default <- MCDefault
    JsonFile = {appjson}
    ScannerFile = {envfile, php}
    ScannerName = {adm}
    WellKnown = {wk}
    AssetsDir = {assets}
    Reserved = {assets, api}
    TooLong = {long}
    ClientType = {clash}
    WithDot = {wk, appjson, envfile, dot, dotdot, php, js}
    Starts <- MCStarts
SPECIFICATION Spec
INVARIANTS
    PrefixTransparent
    ForwardedAsJudged
    LinkLeadsBack
    PageSeesTheClient
    StartedAsWritten
CHECK_DEADLOCK FALSE
