SPECIFICATION Spec
CONSTANTS
    j1 = j1
    j2 = j2
    q1 = q1
    q2 = q2
    repo = repo
    t1 = t1
    m1 = m1
    c1 = c1
    Jobs = {j1, j2}
    Repos = {repo}
    RepoOf <- MCRepoOf
    Requests = {q1, q2}
    Threads = {t1}
    Models = {m1}
    Contexts = {c1}
    Amounts = {2}
    Charges = {1}
    Budgets = {3}
    Planned = {repo, j1}
    MaxBindings = 2
    MaxGen = 1
    MaxMonth = 2
    None = None
SYMMETRY AnyRequest
CONSTRAINT Apart
PROPERTIES BudgetIsSound
