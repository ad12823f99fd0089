SPECIFICATION Spec
CONSTANTS
    ann = ann
    bob = bob
    old = old
    new = new
    h1 = h1
    h2 = h2
    h3 = h3
    NULL = NULL
    Users = {ann, bob}
    Profiles = {old, new}
    Handlers = {h1, h2}
    MaxEvents = 5
PROPERTY
    OwnRowAlways
