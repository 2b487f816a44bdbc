SPECIFICATION Spec
CONSTANTS
    b1 = b1
    b2 = b2
    capability = capability
    harm = harm
    estate = estate
    design = design
    session = session
    rival = rival
    keys = keys
    wide = wide
    export = export
    sheet = sheet
    paper = paper
    page = page
    note = note
    lead = lead
    alien = alien
    key = key
    row = row
    line = line
    abroad = abroad
    cost = cost
    owner = owner
    azure = azure
    aws = aws
    Null = null
    Batches = {b1, b2}
    Maturity = {capability}
    Antipattern = {harm}
    BatchOf <- MCBatchOf
    Targets <- MCTargets
    Sources = {estate, design, session, rival, keys, wide}
    Chunks = {export, sheet, paper, page, note, lead, alien, key, row}
    Derived = {line, abroad}
    SourceOf <- MCSourceOf
    Class <- MCClass
    Hidden <- MCHidden
    Leads = {lead}
    Mentions <- MCMentions
    Privacy <- MCPrivacy
    Tier <- MCTier
    Signals = {}
    Order <- MCOrder
    Size <- MCSize
    Items <- MCItems
    Critical <- MCItems
    Area <- MCArea
    Hints <- MCHints
    Terms = {cost, owner}
    Words <- MCWords
    AreaTerms <- MCAreaTerms
    Target = 3
    Hard = 4
    MaxPicks = 2
    MinGain = 5
    Uploads <- MCUploads
    Scopes <- MCScopes
    Quotes <- MCQuotes
    Counts = {0, 3}
    Width = 1
CHECK_DEADLOCK FALSE
INVARIANT ScopedRunsPass
