\* Two entities, three fields, six user events, a request that fails.
SPECIFICATION Spec
CONSTANTS
    e1 = e1
    e2 = e2
    title = title
    tags = tags
    name = name
    Entity = {e1, e2}
    First = e1
    Field = {title, tags, name}
    EntityOf <- TwoEntities
    PlainField = {title, name}
    None = None
    Destroyed = Destroyed
    MaxEvents = 6
    MaxFailures = 1
INVARIANTS Inv
PROPERTIES DialogHolds 
CHECK_DEADLOCK FALSE
